---------------------------- MODULE Spec2Model ----------------------------
(***************************************************************************)
(* Resume evaluation and grading system: the scoring engine               *)
(* (utils/ai_evaluator.py, utils/nlp.py) and the routes of app.py.        *)
(*                                                                         *)
(* Texts are TLA+ strings over an ASCII alphabet; a character is a string  *)
(* of length 1.  Non-ASCII characters of the source are written with the   *)
(* ASCII stand-ins named below (BULLET, WARN, CHECK, CLIPBOARD).           *)
(* Scores that the code computes as floats are exact rationals [n, d];     *)
(* round(x, 2) is the nearest hundredth, an exact tie going to the even    *)
(* neighbour.                                                              *)
(***************************************************************************)
EXTENDS Integers, Sequences, FiniteSets, TLC

VARIABLES
    nlp,                \* the spaCy pipeline loaded at import, or None
    fs,                 \* the disk: path -> file content
    now,                \* the wall clock, in seconds
    mongo_up,           \* whether the MongoDB server answers
    client,             \* app._client
    connection_status,  \* app._connection_status
    cols,               \* whether _users_col/_evaluations_col/_generated_col are set
    evaluations,        \* the evaluations collection
    next_id,            \* the next ObjectId the server hands out
    call,               \* the last call of evaluate_resume: its arguments and outcome
    resp,               \* the last HTTP response of the application
    input,              \* the arguments drawn for a function applied on its own
    output,             \* what that function returned, or None before the call
    calls,              \* the calls of evaluate_resume in progress, step by step
    handles,            \* the calls that hold their input file open
    users,              \* the users collection
    sessions            \* the user ids some browser holds a login session for

vars == <<nlp, fs, now, mongo_up, client, connection_status, cols,
          evaluations, next_id, call, resp, input, output,
          calls, handles, users, sessions>>

\* Python's None where an object (a dict, a pipeline, a response) is expected
None == [none |-> TRUE]
\* Python's None where a str is expected: a string no text of the model equals
NoText == "<None>"

-----------------------------------------------------------------------------
(* Strings *)

LOWERCASE == "abcdefghijklmnopqrstuvwxyz"
UPPERCASE == "ABCDEFGHIJKLMNOPQRSTUVWXYZ"
DIGITS == "0123456789"

Ch(s, i) == SubSeq(s, i, i)

CharsOf(s) == {Ch(s, i) : i \in 1..Len(s)}

LowerSet == CharsOf(LOWERCASE)
UpperSet == CharsOf(UPPERCASE)
DigitSet == CharsOf(DIGITS)
LetterSet == LowerSet \cup UpperSet
\* \w of the re module, on the ASCII alphabet
WordSet == LetterSet \cup DigitSet \cup {"_"}
\* the characters str.split() and \s treat as whitespace
SpaceSet == {" ", "\n", "\t", "\r"}

ToLower == [c \in UpperSet |->
              Ch(LOWERCASE, CHOOSE i \in 1..26 : Ch(UPPERCASE, i) = c)]

LowerCh(c) == IF c \in UpperSet THEN ToLower[c] ELSE c

\* str.lower(), by halves
RECURSIVE lower(_)
lower(s) ==
    IF Len(s) = 0 THEN ""
    ELSE IF Len(s) = 1 THEN LowerCh(s)
    ELSE LET h == Len(s) \div 2
         IN  lower(SubSeq(s, 1, h)) \o lower(SubSeq(s, h + 1, Len(s)))

\* needle in hay
Contains(hay, needle) ==
    \E i \in 1..(Len(hay) - Len(needle) + 1) :
        SubSeq(hay, i, i + Len(needle) - 1) = needle

startswith(s, p) == Len(s) >= Len(p) /\ SubSeq(s, 1, Len(p)) = p

endswith(s, p) ==
    Len(s) >= Len(p) /\ SubSeq(s, Len(s) - Len(p) + 1, Len(s)) = p

IsWordAt(s, i) == i >= 1 /\ i <= Len(s) /\ Ch(s, i) \in WordSet

\* \b between the characters i-1 and i of s
Boundary(s, i) == IsWordAt(s, i - 1) # IsWordAt(s, i)

AllIn(s, i, j, set) == \A k \in i..j : Ch(s, k) \in set

\* the end of the run of characters of set that starts at i (i-1 when empty)
RECURSIVE RunEnd(_, _, _)
RunEnd(s, i, set) ==
    IF i <= Len(s) /\ Ch(s, i) \in set THEN RunEnd(s, i + 1, set) ELSE i - 1

Min(a, b) == IF a <= b THEN a ELSE b
Max(a, b) == IF a >= b THEN a ELSE b

Range(seq) == {seq[i] : i \in 1..Len(seq)}

\* how many entries of the keyword list kws occur in text
CountIn(kws, text) == Cardinality({i \in 1..Len(kws) : Contains(text, kws[i])})

-----------------------------------------------------------------------------
(* Rationals: [n |-> numerator, d |-> denominator], d > 0 *)

Rat(n, d) == [n |-> n, d |-> d]

RatLe(a, b) == a.n * b.d <= b.n * a.d

RatEq(a, b) == a.n * b.d = b.n * a.d

RatMin(a, b) == IF RatLe(a, b) THEN a ELSE b

\* the integer nearest to n/d (n >= 0, d > 0), an exact tie to the even one
RoundDiv(n, d) ==
    LET q == n \div d
        r == n % d
    IN  IF 2 * r > d THEN q + 1
        ELSE IF 2 * r < d THEN q
        ELSE IF q % 2 = 0 THEN q ELSE q + 1

\* round(x, 2), in hundredths
round2(x) == RoundDiv(100 * x.n, x.d)

-----------------------------------------------------------------------------
(* Keyword tables *)

BULLET == "*"           \* stands for U+2022
WARN == "(!)"           \* stands for U+26A0 U+FE0F
CHECK == "(v)"          \* stands for U+2713
CLIPBOARD == "(#)"      \* stands for U+1F4CB

ATS_KEYWORDS == [
    technical |-> <<"python", "java", "javascript", "sql", "aws", "docker",
                    "kubernetes", "react", "node.js", "git", "agile", "api",
                    "data", "analytics", "machine learning", "ai", "cloud",
                    "devops", "ci/cd", "testing">>,
    soft_skills |-> <<"leadership", "communication", "teamwork",
                      "problem-solving", "management", "collaboration",
                      "analytical", "creative", "organized", "adaptable">>,
    action_verbs |-> <<"developed", "managed", "led", "created",
                       "implemented", "designed", "achieved", "improved",
                       "optimized", "delivered", "coordinated">> ]

\* the dict JOB_ROLES, in its declaration (iteration) order
JOB_ROLES == <<
    [role |-> "Software Developer",
     kws |-> <<"python", "java", "javascript", "programming", "development",
               "coding", "software", "git">>],
    [role |-> "Data Analyst",
     kws |-> <<"data", "analytics", "sql", "excel", "statistics",
               "visualization", "tableau", "power bi">>],
    [role |-> "Data Scientist",
     kws |-> <<"machine learning", "ai", "python", "data science",
               "statistics", "modeling", "algorithms">>],
    [role |-> "DevOps Engineer",
     kws |-> <<"devops", "aws", "docker", "kubernetes", "ci/cd", "jenkins",
               "terraform", "cloud">>],
    [role |-> "Product Manager",
     kws |-> <<"product", "management", "agile", "scrum", "roadmap",
               "stakeholder", "strategy">>],
    [role |-> "UI/UX Designer",
     kws |-> <<"design", "ui", "ux", "figma", "wireframe", "prototype",
               "user experience", "adobe">>],
    [role |-> "Marketing Manager",
     kws |-> <<"marketing", "campaign", "seo", "analytics", "social media",
               "brand", "strategy">>],
    [role |-> "Business Analyst",
     kws |-> <<"business", "analysis", "requirements", "stakeholder",
               "process", "documentation">>] >>

GENERAL_PROFESSIONAL == "General Professional"

-----------------------------------------------------------------------------
(* re.findall, Counter, sorted *)

MIN_WORD_LEN == 4
TOP_WORDS == 20
TOP_ROLES == 3

\* the first position from i on that holds a word character (Len(s)+1: none)
RECURSIVE SkipNonWord(_, _)
SkipNonWord(s, i) ==
    IF i <= Len(s) /\ Ch(s, i) \notin WordSet THEN SkipNonWord(s, i + 1) ELSE i

\* re.findall(r'\b\w{4,}\b', s), scanning from position i (the start of s or
\* the position after a run of \w): the matches in order.  The scan moves to
\* the next \b before a word character, takes the whole run of \w greedily
\* and keeps it when it has at least 4 characters.
RECURSIVE FindWordsFrom(_, _)
FindWordsFrom(s, i) ==
    LET b == SkipNonWord(s, i)
    IN  IF b > Len(s) THEN << >>
        ELSE LET e == RunEnd(s, b, WordSet)
             IN  (IF e - b + 1 >= MIN_WORD_LEN THEN <<SubSeq(s, b, e)>>
                  ELSE << >>) \o FindWordsFrom(s, e + 1)

findall_words(s) == FindWordsFrom(s, 1)

\* the keys of Counter(seq), in first-insertion order
RECURSIVE CounterKeys(_, _, _)
CounterKeys(seq, i, seen) ==
    IF i > Len(seq) THEN << >>
    ELSE IF seq[i] \in seen THEN CounterKeys(seq, i + 1, seen)
         ELSE <<seq[i]>> \o CounterKeys(seq, i + 1, seen \cup {seq[i]})

CountOf(w, seq) == Cardinality({i \in 1..Len(seq) : seq[i] = w})

\* sorted(range, key=keys, reverse=True): the indices of keys by descending
\* key, equal keys in their original order (the sort is stable)
RECURSIVE SortedDesc(_, _)
SortedDesc(keys, left) ==
    IF left = {} THEN << >>
    ELSE LET i == CHOOSE a \in left :
                    \A b \in left :
                        keys[a] > keys[b] \/ (keys[a] = keys[b] /\ a <= b)
         IN  <<i>> \o SortedDesc(keys, left \ {i})

FirstN(seq, n) == SubSeq(seq, 1, Min(n, Len(seq)))

\* Counter(words).most_common(n): the words by descending count, ties in
\* first-insertion order (heapq.nlargest), cut to n
most_common(words, n) ==
    LET keys == CounterKeys(words, 1, {})
        cnt == [i \in 1..Len(keys) |-> CountOf(keys[i], words)] \o << >>
        order == SortedDesc(cnt, 1..Len(keys))
    IN  [k \in 1..Min(n, Len(keys)) |-> keys[order[k]]]

-----------------------------------------------------------------------------
(* File text extraction *)

\* A file content is [fmt, parts]: the format its bytes really have
\* ("pdf", "docx", or "junk" for bytes no reader accepts) and, for a readable
\* document, its page texts (pdf; NoText for a page without extractable text)
\* or its paragraph texts (docx).
PDF_DETAIL == "EOF marker not found"
DOCX_DETAIL == "File is not a zip file"

FILE_NOT_FOUND == "Error: File not found"
UNSUPPORTED == "Unsupported file format"

exists(fsv, file_path) == file_path \in DOMAIN fsv

\* text += page.extract_text() or '' over the pages from i on
RECURSIVE PagesText(_, _)
PagesText(parts, i) ==
    IF i > Len(parts) THEN ""
    ELSE (IF parts[i] = NoText THEN "" ELSE parts[i]) \o PagesText(parts, i + 1)

\* '\n'.join(paragraphs from i on)
RECURSIVE JoinLines(_, _)
JoinLines(parts, i) ==
    IF i > Len(parts) THEN ""
    ELSE IF i = Len(parts) THEN parts[i]
    ELSE parts[i] \o "\n" \o JoinLines(parts, i + 1)

\* mutant: the except clause returns the bare message of the exception
extract_text_from_pdf_bare_detail(fsv, file_path) ==
    IF ~exists(fsv, file_path) THEN FILE_NOT_FOUND
    ELSE IF fsv[file_path].fmt # "pdf" THEN PDF_DETAIL
         ELSE PagesText(fsv[file_path].parts, 1)

extract_text_from_pdf(fsv, file_path) ==
    IF ~exists(fsv, file_path) THEN FILE_NOT_FOUND
    ELSE IF fsv[file_path].fmt # "pdf"
         THEN "Error reading PDF: " \o PDF_DETAIL
         ELSE PagesText(fsv[file_path].parts, 1)

extract_text_from_docx(fsv, file_path) ==
    IF ~exists(fsv, file_path) THEN FILE_NOT_FOUND
    ELSE IF fsv[file_path].fmt # "docx"
         THEN "Error reading DOCX: " \o DOCX_DETAIL
         ELSE JoinLines(fsv[file_path].parts, 1)

\* mutant: a path that does not end in .docx is read as a PDF
extract_text_from_file_pdf_default(fsv, file_path) ==
    IF ~exists(fsv, file_path) THEN FILE_NOT_FOUND
    ELSE IF endswith(lower(file_path), ".docx")
         THEN extract_text_from_docx(fsv, file_path)
    ELSE extract_text_from_pdf(fsv, file_path)

extract_text_from_file(fsv, file_path) ==
    IF ~exists(fsv, file_path) THEN FILE_NOT_FOUND
    ELSE IF endswith(lower(file_path), ".pdf")
         THEN extract_text_from_pdf(fsv, file_path)
    ELSE IF endswith(lower(file_path), ".docx")
         THEN extract_text_from_docx(fsv, file_path)
    ELSE UNSUPPORTED

-----------------------------------------------------------------------------
(* Evaluation functions *)

EmailLocal == LetterSet \cup DigitSet \cup {".", "_", "%", "+", "-"}
EmailDomain == LetterSet \cup DigitSet \cup {".", "-"}
PhoneSep == {"-", "."}

\* re.search(r'\b[A-Za-z0-9._%+-]+@[A-Za-z0-9.-]+\.[A-Za-z]{2,}\b', s)
HasEmail(s) ==
    \E at \in 1..Len(s) :
        /\ Ch(s, at) = "@"
        /\ \E i \in 1..(at - 1) :
               AllIn(s, i, at - 1, EmailLocal) /\ Boundary(s, i)
        /\ \E p \in (at + 2)..Len(s) :
               /\ Ch(s, p) = "."
               /\ AllIn(s, at + 1, p - 1, EmailDomain)
               /\ \E e \in (p + 2)..Len(s) :
                      AllIn(s, p + 1, e, LetterSet) /\ Boundary(s, e + 1)

\* re.search(r'\b\d{3}[-.]?\d{3}[-.]?\d{4}\b', s)
HasPhone(s) ==
    \E i \in 1..Len(s) : \E a \in {0, 1} : \E b \in {0, 1} :
        /\ i + 9 + a + b <= Len(s)
        /\ Boundary(s, i)
        /\ AllIn(s, i, i + 2, DigitSet)
        /\ a = 1 => Ch(s, i + 3) \in PhoneSep
        /\ AllIn(s, i + 3 + a, i + 5 + a, DigitSet)
        /\ b = 1 => Ch(s, i + 6 + a) \in PhoneSep
        /\ AllIn(s, i + 6 + a + b, i + 9 + a + b, DigitSet)
        /\ Boundary(s, i + 10 + a + b)

ATS_HEADERS == <<"experience", "education", "skills", "summary", "objective">>

\* len(text.split('\n'))
LineCount(s) == Cardinality({i \in 1..Len(s) : Ch(s, i) = "\n"}) + 1

\* mutant: the section headers are not capped at 30 points
evaluate_ats_compliance_uncapped_headers(text) ==
    LET text_lower == lower(text)
        header_count == CountIn(ATS_HEADERS, text_lower)
        action_verb_count == CountIn(ATS_KEYWORDS.action_verbs, text_lower)
        tech_count == CountIn(ATS_KEYWORDS.technical, text_lower)
        score == (IF HasEmail(text) THEN 10 ELSE 0)
                 + (IF HasPhone(text) THEN 10 ELSE 0)
                 + header_count * 10
                 + Min(action_verb_count * 2, 20)
                 + Min(tech_count * 2, 20)
                 + (IF LineCount(text) > 10 THEN 10 ELSE 0)
    IN  Min(score, 100)

evaluate_ats_compliance(text) ==
    LET text_lower == lower(text)
        header_count == CountIn(ATS_HEADERS, text_lower)
        action_verb_count == CountIn(ATS_KEYWORDS.action_verbs, text_lower)
        tech_count == CountIn(ATS_KEYWORDS.technical, text_lower)
        score == (IF HasEmail(text) THEN 10 ELSE 0)
                 + (IF HasPhone(text) THEN 10 ELSE 0)
                 + Min(header_count * 10, 30)
                 + Min(action_verb_count * 2, 20)
                 + Min(tech_count * 2, 20)
                 + (IF LineCount(text) > 10 THEN 10 ELSE 0)
    IN  Min(score, 100)

\* "if job_description:" - neither None nor the empty string
Truthy(job_description) == job_description # NoText /\ job_description # ""

\* the words evaluate_keywords compares with the resume: jd_freq
jd_top_words(job_description) ==
    most_common(findall_words(lower(job_description)), TOP_WORDS)

\* the score of evaluate_keywords when a job description is given and its
\* top words are jd_freq; fallback is the value of an empty jd_freq
jd_keyword_score(text_lower, jd_freq, fallback) ==
    IF Len(jd_freq) > 0
    THEN Rat(CountIn(jd_freq, text_lower) * 100, Len(jd_freq))
    ELSE Rat(fallback, 1)

\* mutant: the hit ratio is scaled by 100, not by 200
default_keyword_score_unscaled(text_lower) ==
    LET all_keywords == ATS_KEYWORDS.technical \o ATS_KEYWORDS.soft_skills
        found == CountIn(all_keywords, text_lower)
    IN  RatMin(Rat(found * 100, Len(all_keywords)), Rat(100, 1))

\* the score of evaluate_keywords when no job description is given
default_keyword_score(text_lower) ==
    LET all_keywords == ATS_KEYWORDS.technical \o ATS_KEYWORDS.soft_skills
        found == CountIn(all_keywords, text_lower)
    IN  RatMin(Rat(found * 200, Len(all_keywords)), Rat(100, 1))

\* mutant: a job description without qualifying words scores 0, not 50
evaluate_keywords_zero_default(text, job_description) ==
    RatMin(IF Truthy(job_description)
           THEN jd_keyword_score(lower(text), jd_top_words(job_description), 0)
           ELSE default_keyword_score(lower(text)),
           Rat(100, 1))

evaluate_keywords(text, job_description) ==
    RatMin(IF Truthy(job_description)
           THEN jd_keyword_score(lower(text), jd_top_words(job_description), 50)
           ELSE default_keyword_score(lower(text)),
           Rat(100, 1))

\* mutant: a sentence of 50 tokens already counts as long
evaluate_grammar_fifty(nlpv, text) ==
    IF nlpv = None THEN 75
    ELSE LET doc == nlpv[text]
             sentences == doc.sents
             long_sentences ==
                 Cardinality({i \in 1..Len(sentences) : sentences[i] >= 50})
             score == 100
                      - (IF Len(sentences) < 5 THEN 20 ELSE 0)
                      - Min(long_sentences * 5, 20)
                      - (IF ~doc.upper THEN 10 ELSE 0)
         IN  Max(score, 0)

\* nlpv is None or the loaded pipeline: a function from a text to its Doc,
\* [sents |-> the token count of each sentence, upper |-> whether an
\* alphabetic token begins with an uppercase letter]
evaluate_grammar(nlpv, text) ==
    IF nlpv = None THEN 75
    ELSE LET doc == nlpv[text]
             sentences == doc.sents
             long_sentences ==
                 Cardinality({i \in 1..Len(sentences) : sentences[i] > 50})
             score == 100
                      - (IF Len(sentences) < 5 THEN 20 ELSE 0)
                      - Min(long_sentences * 5, 20)
                      - (IF ~doc.upper THEN 10 ELSE 0)
         IN  Max(score, 0)

STRUCTURE_SECTIONS == <<
    <<"email", "phone", "linkedin">>,
    <<"summary", "objective", "profile">>,
    <<"experience", "work history", "employment">>,
    <<"education", "degree", "university", "college">>,
    <<"skills", "technical skills", "competencies">> >>

\* len(text.split()): the runs of non-whitespace characters
WordCount(s) ==
    Cardinality({i \in 1..Len(s) :
                    /\ Ch(s, i) \notin SpaceSet
                    /\ (i = 1 \/ Ch(s, i - 1) \in SpaceSet)})

\* re.search(r'\n\s*\d+\.', s)
HasNumberedList(s) ==
    \E i \in 1..Len(s) :
        /\ Ch(s, i) = "\n"
        /\ LET j == RunEnd(s, i + 1, SpaceSet)
               k == RunEnd(s, j + 1, DigitSet)
           IN  k >= j + 1 /\ k + 1 <= Len(s) /\ Ch(s, k + 1) = "."

\* mutant: the two word-count ranges exclude their bounds
structure_points_open_ranges(text) ==
    LET text_lower == lower(text)
        found == {c \in 1..Len(STRUCTURE_SECTIONS) :
                     CountIn(STRUCTURE_SECTIONS[c], text_lower) > 0}
        word_count == WordCount(text)
    IN  20 * Cardinality(found)
        + (IF 300 < word_count /\ word_count < 800 THEN 10
           ELSE IF 200 < word_count /\ word_count < 1000 THEN 5
           ELSE 0)
        + (IF Contains(text, BULLET) \/ Contains(text, "-")
              \/ HasNumberedList(text)
           THEN 10 ELSE 0)

\* the score of evaluate_structure before "return min(score, 100)"
structure_points(text) ==
    LET text_lower == lower(text)
        found == {c \in 1..Len(STRUCTURE_SECTIONS) :
                     CountIn(STRUCTURE_SECTIONS[c], text_lower) > 0}
        word_count == WordCount(text)
    IN  20 * Cardinality(found)
        + (IF 300 <= word_count /\ word_count <= 800 THEN 10
           ELSE IF 200 <= word_count /\ word_count <= 1000 THEN 5
           ELSE 0)
        + (IF Contains(text, BULLET) \/ Contains(text, "-")
              \/ HasNumberedList(text)
           THEN 10 ELSE 0)

\* mutant: the final min(score, 100) is dropped
evaluate_structure_unclamped(text) == structure_points(text)

evaluate_structure(text) == Min(structure_points(text), 100)

\* mutant: the score also depends on the second at which it is computed
evaluate_skills_timed(text) ==
    Min(CountIn(ATS_KEYWORDS.technical, lower(text)) * 5
        + CountIn(ATS_KEYWORDS.soft_skills, lower(text)) * 3
        + now * 5, 100)

\* mutant: the final min(..., 100) is dropped
evaluate_skills_unclamped(text) ==
    LET text_lower == lower(text)
        tech == CountIn(ATS_KEYWORDS.technical, text_lower)
        soft == CountIn(ATS_KEYWORDS.soft_skills, text_lower)
    IN  tech * 5 + soft * 3

evaluate_skills(text) ==
    LET text_lower == lower(text)
        tech == CountIn(ATS_KEYWORDS.technical, text_lower)
        soft == CountIn(ATS_KEYWORDS.soft_skills, text_lower)
    IN  Min(tech * 5 + soft * 3, 100)

\* mutant: the common words are counted against the words of the resume
jd_match_of_resume_share(resume_words, jd_words) ==
    RatMin(IF resume_words # {}
           THEN Rat(Cardinality(resume_words \cap jd_words) * 100,
                    Cardinality(resume_words))
           ELSE Rat(0, 1),
           Rat(100, 1))

\* min((len(common) / len(jd_words)) * 100 if jd_words else 0, 100)
jd_match_of(resume_words, jd_words) ==
    RatMin(IF jd_words # {}
           THEN Rat(Cardinality(resume_words \cap jd_words) * 100,
                    Cardinality(jd_words))
           ELSE Rat(0, 1),
           Rat(100, 1))

\* mutant: the job description is not lower-cased before it is tokenized
calculate_jd_match_case_sensitive(resume_text, job_description) ==
    IF ~Truthy(job_description) THEN Rat(0, 1)
    ELSE jd_match_of(Range(findall_words(lower(resume_text))),
                     Range(findall_words(job_description)))

calculate_jd_match(resume_text, job_description) ==
    IF ~Truthy(job_description) THEN Rat(0, 1)
    ELSE jd_match_of(Range(findall_words(lower(resume_text))),
                     Range(findall_words(lower(job_description))))

\* role_scores, in the order of JOB_ROLES
role_scores(text) ==
    LET text_lower == lower(text)
    IN  [r \in 1..Len(JOB_ROLES) |-> CountIn(JOB_ROLES[r].kws, text_lower)]
        \o << >>

\* the role names at the indices idx of JOB_ROLES, or the sentinel
role_names(idx) ==
    IF Len(idx) > 0 THEN [k \in 1..Len(idx) |-> JOB_ROLES[idx[k]].role]
    ELSE <<GENERAL_PROFESSIONAL>>

\* mutant: the "if score > 0" filter of the comprehension is dropped
suggest_job_roles_unfiltered(text) ==
    role_names(FirstN(SortedDesc(role_scores(text), 1..Len(JOB_ROLES)),
                      TOP_ROLES))

\* mutant: the roles are not sorted by score before the cut to three
suggest_job_roles_declared_order(text) ==
    LET scores == role_scores(text)
        order == FirstN([r \in 1..Len(JOB_ROLES) |-> r], TOP_ROLES)
    IN  role_names(SelectSeq(order, LAMBDA r : scores[r] > 0))

suggest_job_roles(text) ==
    LET scores == role_scores(text)
        order == FirstN(SortedDesc(scores, 1..Len(JOB_ROLES)), TOP_ROLES)
    IN  role_names(SelectSeq(order, LAMBDA r : scores[r] > 0))

-----------------------------------------------------------------------------
(* Feedback and the main evaluation function *)

\* the five lines of generate_feedback, one per score, with the thresholds
\* ats, keyword, grammar, structure, skills: t1 .. t5
feedback_lines(scores, t1, t2, t3, t4, t5) == <<
    IF scores.ats_score < t1
    THEN WARN \o " ATS Compliance: Add clear sections (Experience, Education, Skills) and contact info."
    ELSE CHECK \o " ATS Compliance: Well-structured for ATS systems.",
    IF scores.keyword_score.n < t2 * scores.keyword_score.d
    THEN WARN \o " Keywords: Include more role-specific keywords and technical skills."
    ELSE CHECK \o " Keywords: Good keyword optimization.",
    IF scores.grammar_score < t3
    THEN WARN \o " Grammar: Review grammar, punctuation, and sentence structure."
    ELSE CHECK \o " Grammar: Language quality is good.",
    IF scores.structure_score < t4
    THEN WARN \o " Structure: Add clear sections and use bullet points."
    ELSE CHECK \o " Structure: Resume layout is good.",
    IF scores.skills_score < t5
    THEN WARN \o " Skills: Include more technical and soft skills relevant to your field."
    ELSE CHECK \o " Skills: Skills coverage is good." >>

\* mutant: the last recommendation is missing
RECOMMENDATIONS_four == <<
    "\n" \o CLIPBOARD \o " General Recommendations:",
    BULLET \o " Keep your resume concise (1-2 pages)",
    BULLET \o " Use action verbs to describe achievements",
    BULLET \o " Quantify your accomplishments with numbers/metrics",
    BULLET \o " Tailor your resume to match the job description" >>

\* what generate_feedback appends after the five lines
RECOMMENDATIONS == <<
    "\n" \o CLIPBOARD \o " General Recommendations:",
    BULLET \o " Keep your resume concise (1-2 pages)",
    BULLET \o " Use action verbs to describe achievements",
    BULLET \o " Quantify your accomplishments with numbers/metrics",
    BULLET \o " Tailor your resume to match the job description",
    BULLET \o " Ensure consistent formatting throughout" >>

T_ATS == 70
T_KEYWORD == 60
T_GRAMMAR == 70
T_STRUCTURE == 70
T_SKILLS == 60

\* mutant: the keyword line warns below 70, like the ATS line
generate_feedback_keyword_70(scores, resume_text) ==
    JoinLines(feedback_lines(scores, T_ATS, T_ATS, T_GRAMMAR, T_STRUCTURE,
                             T_SKILLS)
              \o RECOMMENDATIONS, 1)

generate_feedback(scores, resume_text) ==
    JoinLines(feedback_lines(scores, T_ATS, T_KEYWORD, T_GRAMMAR, T_STRUCTURE,
                             T_SKILLS)
              \o RECOMMENDATIONS, 1)

\* the weights of overall_score, in hundredths
W_ATS == 25
W_KEYWORD == 25
W_GRAMMAR == 15
W_STRUCTURE == 20
W_SKILLS == 15

\* a*ats + k*keyword + g*grammar + s*structure + sk*skills, weights in
\* hundredths
weighted_sum(scores, a, k, g, st, sk) ==
    Rat(scores.keyword_score.d * (a * scores.ats_score
                                  + g * scores.grammar_score
                                  + st * scores.structure_score
                                  + sk * scores.skills_score)
        + k * scores.keyword_score.n,
        100 * scores.keyword_score.d)

\* mutant: the weights of grammar and structure are exchanged
overall_of_swapped(scores) ==
    weighted_sum(scores, W_ATS, W_KEYWORD, W_STRUCTURE, W_GRAMMAR, W_SKILLS)

\* ats*0.25 + keyword*0.25 + grammar*0.15 + structure*0.20 + skills*0.15
overall_of(scores) ==
    weighted_sum(scores, W_ATS, W_KEYWORD, W_GRAMMAR, W_STRUCTURE, W_SKILLS)

\* The five scores of evaluate_resume before rounding, with the overall score
\* and the job-description match computed from them.
compute_scores(nlpv, resume_text, job_description) ==
    LET scores == [ats_score |-> evaluate_ats_compliance(resume_text),
                   keyword_score |-> evaluate_keywords(resume_text, job_description),
                   grammar_score |-> evaluate_grammar(nlpv, resume_text),
                   structure_score |-> evaluate_structure(resume_text),
                   skills_score |-> evaluate_skills(resume_text)]
    IN  [scores |-> scores,
         overall_score |-> overall_of(scores),
         jd_match |-> IF Truthy(job_description)
                      THEN calculate_jd_match(resume_text, job_description)
                      ELSE Rat(0, 1)]

\* mutant: only the unsupported-format sentinel counts as a failure
IsFailureText_sentinel_only(resume_text) == resume_text = UNSUPPORTED

\* the test of line 236 on the extracted text
IsFailureText(resume_text) ==
    startswith(resume_text, "Error") \/ resume_text = UNSUPPORTED

\* the dict evaluate_resume returns for the computed scores c: every numeric
\* field rounded to 2 decimals (held in hundredths)
result_dict(c, resume_text) ==
    [overall_score |-> round2(c.overall_score),
     ats_score |-> 100 * c.scores.ats_score,
     keyword_score |-> round2(c.scores.keyword_score),
     grammar_score |-> 100 * c.scores.grammar_score,
     structure_score |-> 100 * c.scores.structure_score,
     skills_score |-> 100 * c.scores.skills_score,
     jd_match_percentage |-> round2(c.jd_match),
     suggested_roles |-> suggest_job_roles(resume_text),
     detailed_feedback |-> generate_feedback(c.scores, resume_text),
     resume_text |-> resume_text]

\* evaluate_resume, with what it read and computed on the way: the file
\* content it found (None: no such file), the text the extractor handed back,
\* the unrounded scores (None when it returned early) and the returned value
\* (None, or the result dict).
evaluate_resume_call(nlpv, fsv, file_path, job_description) ==
    LET resume_text == extract_text_from_file(fsv, file_path)
        failed == IsFailureText(resume_text)
        c == IF failed THEN None
             ELSE compute_scores(nlpv, resume_text, job_description)
    IN  [file_path |-> file_path,
         job_description |-> job_description,
         content |-> IF exists(fsv, file_path) THEN fsv[file_path] ELSE None,
         extracted |-> resume_text,
         computed |-> c,
         result |-> IF failed THEN None ELSE result_dict(c, resume_text)]

evaluate_resume(nlpv, fsv, file_path, job_description) ==
    evaluate_resume_call(nlpv, fsv, file_path, job_description).result

-----------------------------------------------------------------------------
(* A call of evaluate_resume *)

\* test_ai_evaluator.py: a direct call of evaluate_resume
Evaluate(file_path, job_description) ==
    /\ call' = evaluate_resume_call(nlp, fs, file_path, job_description)
    /\ resp' = None
    /\ UNCHANGED <<nlp, fs, now, mongo_up, client, connection_status, cols,
                   evaluations, next_id, input, output,
                   calls, handles, users, sessions>>

-----------------------------------------------------------------------------
(* SpecEval: evaluate_resume on one PDF whose pages are drawn from PagePool *)

MaxPages == 2

PagePool == {
    "Python data ",
    "skills email -",
    "summary degree experience",
    "strategy analytics",
    "Error",
    "base",
    NoText }

JD7 == "python data summary strategy creative email error"
JD21 == "python data summary strategy creative email error base skills education experience stakeholder analytics java ruby perl rust scala swift kotlin golang golang"

JobDescriptions == {
    NoText, "", " ", "?! ...", "ab cd_e", "Python", "Data base PYTHON data",
    "database", JD7, JD21 }

\* the Docs a loaded pipeline may return for the text under evaluation
EvalDocs == {
    [sents |-> <<51, 51, 51, 51>>, upper |-> FALSE],
    [sents |-> <<7, 60, 3, 9, 12>>, upper |-> TRUE] }

PageSeqs == UNION {[1..n -> PagePool] : n \in 0..MaxPages}

EVAL_PATH == "resume.pdf"

InitEval ==
    /\ \E pages \in PageSeqs :
           fs = (EVAL_PATH :> [fmt |-> "pdf", parts |-> pages])
    /\ nlp \in {None}
           \cup {[t \in {extract_text_from_file(fs, EVAL_PATH)} |-> d] :
                    d \in EvalDocs}
    /\ now = 0
    /\ mongo_up = FALSE
    /\ client = "None"
    /\ connection_status = FALSE
    /\ cols = FALSE
    /\ evaluations = << >>
    /\ next_id = 1
    /\ call = None
    /\ resp = None
    /\ input = None
    /\ output = None
    /\ calls = << >>
    /\ handles = {}
    /\ users = << >>
    /\ sessions = {}

NextEval ==
    /\ call = None
    /\ \E jd \in JobDescriptions : Evaluate(EVAL_PATH, jd)

SpecEval == InitEval /\ [][NextEval]_vars

-----------------------------------------------------------------------------
(* The web application: database connection, upload route *)

\* the state of _client, _connection_status and the collection globals after
\* get_mongo_client() has run while the server is reachable (up) or not:
\* is_connection_alive pings an existing client, create_mongo_connection
\* builds a new one or resets every global on failure
get_mongo_client(cl, up) ==
    IF cl # "None" /\ up
    THEN [client |-> cl, connection_status |-> TRUE, cols |-> TRUE]
    ELSE IF up
         THEN [client |-> "MongoClient", connection_status |-> TRUE,
               cols |-> TRUE]
         ELSE [client |-> "None", connection_status |-> FALSE, cols |-> FALSE]

\* return _connection_status and _users_col is not None
check_db_connection(conn) == conn.connection_status /\ conn.cols

ALLOWED_EXTENSIONS == {"pdf", "docx"}

UPLOAD_FOLDER == "static/uploads"

\* the index of the last occurrence of the character c in s, 0 if none
RECURSIVE LastIndexOf(_, _, _)
LastIndexOf(s, c, i) ==
    IF i = 0 THEN 0
    ELSE IF Ch(s, i) = c THEN i
    ELSE LastIndexOf(s, c, i - 1)

\* '.' in filename and filename.rsplit('.', 1)[1].lower() in ALLOWED_EXTENSIONS
allowed_file(filename) ==
    LET dot == LastIndexOf(filename, ".", Len(filename))
    IN  /\ dot > 0
        /\ lower(SubSeq(filename, dot + 1, Len(filename)))
              \in ALLOWED_EXTENSIONS

\* the concatenation of the strings pieces[lo..hi]
RECURSIVE ConcatAll(_, _, _)
ConcatAll(pieces, lo, hi) ==
    IF lo > hi THEN ""
    ELSE IF lo = hi THEN pieces[lo]
    ELSE LET mid == (lo + hi) \div 2
         IN  ConcatAll(pieces, lo, mid) \o ConcatAll(pieces, mid + 1, hi)

\* s without its leading and trailing characters of set
RECURSIVE StripLeft(_, _)
StripLeft(s, set) ==
    IF Len(s) > 0 /\ Ch(s, 1) \in set
    THEN StripLeft(SubSeq(s, 2, Len(s)), set) ELSE s

RECURSIVE StripRight(_, _)
StripRight(s, set) ==
    IF Len(s) > 0 /\ Ch(s, Len(s)) \in set
    THEN StripRight(SubSeq(s, 1, Len(s) - 1), set) ELSE s

strip(s, set) == StripRight(StripLeft(s, set), set)

FILENAME_CHARS == LetterSet \cup DigitSet \cup {"_", ".", "-"}

\* werkzeug.utils.secure_filename on ASCII input: path separators become
\* spaces, the whitespace-separated pieces are joined with "_", every
\* character outside [A-Za-z0-9_.-] is removed, and leading and trailing
\* "." and "_" are stripped
secure_filename(filename) ==
    LET spaced == [i \in 1..Len(filename) |->
                      IF Ch(filename, i) = "/" THEN " "
                      ELSE Ch(filename, i)] \o << >>
        IsSpace(i) == spaced[i] \in SpaceSet
        n == Len(spaced)
        first == IF \E i \in 1..n : ~IsSpace(i)
                 THEN CHOOSE i \in 1..n :
                        ~IsSpace(i) /\ \A j \in 1..(i - 1) : IsSpace(j)
                 ELSE n + 1
        last == IF \E i \in 1..n : ~IsSpace(i)
                THEN CHOOSE i \in 1..n :
                       ~IsSpace(i) /\ \A j \in (i + 1)..n : IsSpace(j)
                ELSE 0
        joined == [i \in 1..n |->
                      IF ~IsSpace(i)
                      THEN (IF spaced[i] \in FILENAME_CHARS
                            THEN spaced[i] ELSE "")
                      ELSE IF i > first /\ i < last /\ ~IsSpace(i - 1)
                           THEN "_" ELSE ""] \o << >>
    IN  strip(ConcatAll(joined, 1, n), {".", "_"})

\* datetime.now().strftime('%Y%m%d_%H%M%S') at the second t of the first
\* minute of the modelled day
strftime(t) ==
    "20240101_0000" \o Ch(DIGITS, (t \div 10) + 1) \o Ch(DIGITS, (t % 10) + 1)

\* flash messages (the Hindi ones are given in English)
FLASH_CHOOSE_FILE == <<"Please choose a file!", "error">>
FLASH_EVAL_FAILED ==
    <<"Resume evaluation failed. Please check the file format.", "error">>
FLASH_DB_UNAVAILABLE ==
    <<"Database connection unavailable. Please try again later.", "error">>
FLASH_ANALYSED == <<"Resume analysed successfully!", "success">>
FLASH_ONLY_PDF_DOCX == <<"Only PDF or DOCX files are allowed.", "error">>
FLASH_LOGIN == <<"Please log in to access this page.", "message">>

Redirect(to, flash) == [kind |-> "redirect", to |-> to, flash |-> flash]

\* the ids of the users registered before start-up
USERS == {"u1"}

\* the users collection at start-up: password_hash is modelled by the
\* password it was generated from (check_password_hash succeeds on that
\* password only)
InitialUsers ==
    <<[_id |-> "u1", username |-> "jo", email |-> "jo@x.io",
      password_hash |-> "pw1"]>>

\* the outcome of a request that changes nothing but the connection state
\* and answers with response
Answer(conn, response) ==
    [fs |-> fs, evaluations |-> evaluations, next_id |-> next_id,
     conn |-> conn, call |-> None, resp |-> response]

\* mutant: the outcome of the evaluation is not tested before the insert
upload_evaluated_unchecked(user, name, file_path, job_description, conn, saved, c) ==
    [fs |-> saved, call |-> c,
     conn |-> get_mongo_client(conn.client, mongo_up),
     evaluations |-> Append(evaluations,
                            [_id |-> next_id, user_id |-> user,
                             filename |-> name, file_path |-> file_path,
                             job_description |-> job_description,
                             created_at |-> now] @@ c.result),
     next_id |-> next_id + 1,
     resp |-> [kind |-> "redirect", to |-> "result", eval_id |-> next_id,
               flash |-> FLASH_ANALYSED]]

\* lines 337-364 of the upload view: c is the evaluate_resume call made on
\* the saved file, saved the file system after file.save
upload_evaluated(user, name, file_path, job_description, conn, saved, c) ==
    LET conn2 == get_mongo_client(conn.client, mongo_up)
        evaluation_doc ==
            [_id |-> next_id, user_id |-> user, filename |-> name,
             file_path |-> file_path, job_description |-> job_description,
             created_at |-> now] @@ c.result
        kept == [fs |-> saved, evaluations |-> evaluations,
                 next_id |-> next_id, call |-> c]
    IN  IF c.result = None
        THEN kept @@ [conn |-> conn,
                      resp |-> Redirect("upload", FLASH_EVAL_FAILED)]
        ELSE IF ~check_db_connection(conn)
        THEN kept @@ [conn |-> conn,
                      resp |-> Redirect("upload", FLASH_DB_UNAVAILABLE)]
        ELSE IF ~conn2.cols
        THEN kept @@ [conn |-> conn2,
                      resp |-> Redirect("upload", FLASH_DB_UNAVAILABLE)]
        ELSE [fs |-> saved, call |-> c, conn |-> conn2,
              evaluations |-> Append(evaluations, evaluation_doc),
              next_id |-> next_id + 1,
              resp |-> [kind |-> "redirect", to |-> "result",
                        eval_id |-> next_id, flash |-> FLASH_ANALYSED]]

\* lines 330-337 of the upload view: the file is saved under its new name
\* and evaluated
upload_saved(user, name, content, job_description, conn) ==
    LET file_path == UPLOAD_FOLDER \o "/" \o name
        saved == [p \in DOMAIN fs \cup {file_path} |->
                     IF p = file_path THEN content ELSE fs[p]]
    IN  upload_evaluated(user, name, file_path, job_description, conn, saved,
            evaluate_resume_call(nlp, saved, file_path, job_description))

\* the upload view for the logged-in user: its effect on fs and evaluations,
\* the evaluate_resume call it makes and its response; conn is the
\* connection state load_user left
upload(user, method, filename, content, form_jd, conn) ==
    IF method # "POST"
    THEN Answer(conn, [kind |-> "page", to |-> "upload", flash |-> << >>])
    ELSE IF filename = ""
    THEN Answer(conn, Redirect("upload", FLASH_CHOOSE_FILE))
    ELSE IF ~allowed_file(filename)
    THEN Answer(conn, [kind |-> "page", to |-> "upload",
                       flash |-> FLASH_ONLY_PDF_DOCX])
    ELSE upload_saved(user,
                      user \o "_" \o strftime(now) \o "_"
                          \o secure_filename(filename),
                      content, strip(form_jd, SpaceSet), conn)

\* the state after a request with outcome out
Respond(out) ==
    /\ fs' = out.fs
    /\ evaluations' = out.evaluations
    /\ next_id' = out.next_id
    /\ client' = out.conn.client
    /\ connection_status' = out.conn.connection_status
    /\ cols' = out.conn.cols
    /\ call' = out.call
    /\ resp' = out.resp
    /\ UNCHANGED <<nlp, now, mongo_up, input, output,
                   calls, handles, users, sessions>>

\* load_user for the session of user: the connection state it leaves and
\* whether it found the user
load_user(user) ==
    LET conn == get_mongo_client(client, mongo_up)
    IN  [conn |-> conn,
         found |-> conn.cols /\ \E i \in 1..Len(users) : users[i]._id = user]

\* the outcome of /upload once load_user has answered with session
upload_route(session, user, method, filename, content, form_jd) ==
    IF session.found
    THEN upload(user, method, filename, content, form_jd, session.conn)
    ELSE Answer(session.conn, Redirect("login", FLASH_LOGIN))

\* a request to /upload carrying the session of user: load_user runs first
\* (login_required), then the view
Upload(user, method, filename, content, form_jd) ==
    Respond(upload_route(load_user(user), user, method, filename, content,
                         form_jd))

\* the database server becomes reachable or unreachable
MongoSwitch ==
    /\ mongo_up' = ~mongo_up
    /\ UNCHANGED <<nlp, fs, now, client, connection_status, cols,
                   evaluations, next_id, call, resp, input, output,
                   calls, handles, users, sessions>>

\* a second passes
Tick ==
    /\ now' = now + 1
    /\ UNCHANGED <<nlp, fs, mongo_up, client, connection_status, cols,
                   evaluations, next_id, call, resp, input, output,
                   calls, handles, users, sessions>>

-----------------------------------------------------------------------------
(* Spec: the application after start-up, with some files on disk *)

MaxTime == 1
MaxUploads == 1

GOOD_PDF ==
    [fmt |-> "pdf", parts |-> <<"Jo Doe jo@x.io ", NoText, "Skills: Python">>]
GOOD_DOCX ==
    [fmt |-> "docx", parts |-> <<"Summary", "- led data analysis">>]
TEXT_FILE == [fmt |-> "junk", parts |-> <<"plain notes on python">>]

InitialFiles ==
    [p \in {"sample_resume.pdf.docx", "notes.txt", "broken.pdf", "old.PDF"} |->
        CASE p = "sample_resume.pdf.docx" -> GOOD_DOCX
          [] p = "notes.txt" -> TEXT_FILE
          [] p = "broken.pdf" -> GOOD_DOCX
          [] p = "old.PDF" -> GOOD_PDF]

CallPaths == {"missing.pdf"}

CallJobDescriptions == {"Python data analysis"}

UploadNames == {"", "My CV.DOCX", "notes.txt"}

UploadContents == {GOOD_DOCX, TEXT_FILE}

UploadJobDescriptions == {" Python data analysis\n"}

\* the texts the extractors can hand back in Spec
SysTexts ==
    {PagesText(GOOD_PDF.parts, 1), JoinLines(GOOD_DOCX.parts, 1)}

\* the loaded pipeline on these texts: one sentence per line
SysNlp ==
    [t \in SysTexts |->
        [sents |-> [k \in 1..LineCount(t) |-> WordCount(t)],
         upper |-> \E i \in 1..Len(t) : Ch(t, i) \in UpperSet]]

Init ==
    /\ nlp \in {None, SysNlp}
    /\ fs = InitialFiles
    /\ now = 0
    /\ mongo_up \in BOOLEAN
    /\ LET conn == get_mongo_client("None", mongo_up)
       IN  /\ client = conn.client
           /\ connection_status = conn.connection_status
           /\ cols = conn.cols
    /\ evaluations = << >>
    /\ next_id = 1
    /\ call = None
    /\ resp = None
    /\ input = None
    /\ output = None
    /\ calls = << >>
    /\ handles = {}
    /\ users = InitialUsers
    /\ sessions = USERS

Next ==
    \/ \E file_path \in CallPaths \cup DOMAIN fs :
         \E job_description \in CallJobDescriptions :
           Evaluate(file_path, job_description)
    \/ /\ next_id <= MaxUploads
       /\ \E user \in USERS, method \in {"GET", "POST"},
             filename \in UploadNames, content \in UploadContents,
             form_jd \in UploadJobDescriptions :
            Upload(user, method, filename, content, form_jd)
    \/ MongoSwitch
    \/ now < MaxTime /\ Tick

Spec == Init /\ [][Next]_vars

-----------------------------------------------------------------------------
(* Properties of a successful evaluation *)

Evaluated == call # None

Succeeded == Evaluated /\ call.result # None

SCORE_FIELDS ==
    {"overall_score", "ats_score", "keyword_score", "grammar_score",
     "structure_score", "skills_score", "jd_match_percentage"}

\* the words of s as the pattern \b\w{4,}\b finds them, one per position at
\* which a maximal run of word characters of at least four begins
WordStarts(s) ==
    {i \in 1..Len(s) : /\ IsWordAt(s, i)
                       /\ ~IsWordAt(s, i - 1)
                       /\ RunEnd(s, i, WordSet) - i + 1 >= 4}

WordAt(s, i) == SubSeq(s, i, RunEnd(s, i, WordSet))

WordsOf(s) == {WordAt(s, i) : i \in WordStarts(s)}

Freq(s, w) == Cardinality({i \in WordStarts(s) : WordAt(s, i) = w})

\* C1: every successful evaluation reports the seven numeric fields
\* (overall, ats, keyword, grammar, structure, skills, jd match), and each
\* of them lies between 0 and 100 inclusive (fields are held in hundredths).
C1_ScoresInRange ==
    Succeeded =>
        /\ SCORE_FIELDS \subseteq DOMAIN call.result
        /\ \A f \in SCORE_FIELDS : call.result[f] \in 0..10000

\* the structure points of the resume exceed 100 before the clamp, and the
\* reported structure score is exactly 100
C1_Witness ==
    /\ Succeeded
    /\ structure_points(call.extracted) > 100
    /\ call.result.structure_score = 10000
    /\ call.result.keyword_score \in 1..9999

\* C2: the overall score is the weighted sum 0.25 ats + 0.25 keyword
\* + 0.15 grammar + 0.20 structure + 0.15 skills of the five component
\* scores, rounded to two decimals: it is the rounding of the exact weighted
\* sum of the components, each reported field is the rounding of its
\* component, and the overall score lies within half a hundredth of the
\* weighted sum of the reported fields.
C2_OverallIsWeightedSum ==
    Succeeded =>
        LET r == call.result
            c == call.computed.scores
            kd == c.keyword_score.d
            exact == kd * (25 * c.ats_score + 15 * c.grammar_score
                           + 20 * c.structure_score + 15 * c.skills_score)
                     + 25 * c.keyword_score.n
            reported == 25 * r.ats_score + 25 * r.keyword_score
                        + 15 * r.grammar_score + 20 * r.structure_score
                        + 15 * r.skills_score
            gap == 100 * r.overall_score - reported
        IN  /\ r.overall_score = RoundDiv(exact, kd)
            /\ r.ats_score = 100 * c.ats_score
            /\ r.grammar_score = 100 * c.grammar_score
            /\ r.structure_score = 100 * c.structure_score
            /\ r.skills_score = 100 * c.skills_score
            /\ r.keyword_score = RoundDiv(100 * c.keyword_score.n, kd)
            /\ 2 * gap <= 100
            /\ 2 * gap >= -100

\* an evaluation whose keyword score is not a whole number of hundredths and
\* whose five components differ, so that the weights matter
C2_Witness ==
    /\ Succeeded
    /\ (100 * call.computed.scores.keyword_score.n)
           % call.computed.scores.keyword_score.d # 0
    /\ call.result.grammar_score # call.result.structure_score
    /\ call.result.ats_score # call.result.skills_score
    /\ call.result.overall_score > 0

\* the roles of JOB_ROLES that have at least one of their keywords in the
\* lower-cased text
MatchingRoles(text) ==
    LET text_lower == lower(text)
    IN  {JOB_ROLES[k].role : k \in
            {k \in 1..Len(JOB_ROLES) :
                \E kw \in Range(JOB_ROLES[k].kws) :
                    Contains(text_lower, kw)}}

\* C8: suggest_job_roles returns between one and three role names, without
\* duplicates; they are either all roles with at least one keyword present
\* in the resume, or the single sentinel 'General Professional' when no role
\* has a keyword present.
C8_SuggestedRoles ==
    Succeeded =>
        LET roles == call.result.suggested_roles
            matching == MatchingRoles(call.extracted)
        IN  /\ Len(roles) \in 1..3
            /\ \A i, j \in 1..Len(roles) : roles[i] = roles[j] => i = j
            /\ IF matching = {}
               THEN roles = <<"General Professional">>
               ELSE Range(roles) \subseteq matching

\* more than three roles have a keyword present and three are returned
C8_Witness ==
    /\ Succeeded
    /\ Cardinality(MatchingRoles(call.extracted)) > 3
    /\ Len(call.result.suggested_roles) = 3

\* C9: jd_match_percentage is 0 when the job description is absent, empty
\* or has no word of four or more characters; otherwise it is
\* min(100, 100 * |R \cap J| / |J|), R and J being the sets of distinct
\* lower-cased words of four or more characters of the resume and of the
\* job description (reported rounded to two decimals).
C9_JdMatch ==
    Succeeded =>
        LET jd == call.job_description
            J == IF jd = NoText THEN {} ELSE WordsOf(lower(jd))
            R == WordsOf(lower(call.extracted))
            common == Cardinality(R \cap J)
            m == call.computed.jd_match
        IN  IF jd = NoText \/ jd = "" \/ J = {}
            THEN m.n = 0 /\ call.result.jd_match_percentage = 0
            ELSE /\ m.n * Cardinality(J) = 100 * common * m.d
                 /\ 100 * common <= 100 * Cardinality(J)
                 /\ call.result.jd_match_percentage
                       = RoundDiv(10000 * common, Cardinality(J))

\* a job description given in mixed case shares some but not all of its
\* words with the resume
C9_Witness ==
    /\ Succeeded
    /\ call.job_description = "Data base PYTHON data"
    /\ call.result.jd_match_percentage \in 1..9999

\* C10: with a job description, the keyword score is 100 * m / n, where n
\* is the number of most frequent job-description words of four or more
\* characters taken (all of them up to 20) and m the number of those that
\* occur in the lower-cased resume; it is 50 when the job description has
\* no such word.
C10_KeywordsWithJd ==
    (Succeeded /\ Truthy(call.job_description)) =>
        LET jdl == lower(call.job_description)
            J == WordsOf(jdl)
            n == Min(20, Cardinality(J))
            top == Range(jd_top_words(call.job_description))
            text_lower == lower(call.extracted)
            m == Cardinality({w \in top : Contains(text_lower, w)})
            score == call.computed.scores.keyword_score
        IN  IF n = 0
            THEN score.n = 50 * score.d /\ call.result.keyword_score = 5000
            ELSE /\ top \subseteq J
                 /\ Cardinality(top) = n
                 /\ \A w \in top : \A v \in J \ top :
                        Freq(jdl, w) >= Freq(jdl, v)
                 /\ score.n * n = 100 * m * score.d
                 /\ call.result.keyword_score = RoundDiv(10000 * m, n)

\* the job description has more than 20 distinct words, and some but not all
\* of the 20 taken occur in the resume
C10_Witness ==
    /\ Succeeded
    /\ Cardinality(WordsOf(lower(call.job_description))) > 20
    /\ call.result.keyword_score \in 1..9999

-----------------------------------------------------------------------------
(* Properties of evaluate_resume on the files of the application *)

\* the text after the last "." of the path, lower-cased ("" without a ".")
Extension(file_path) ==
    LET dot == LastIndexOf(file_path, ".", Len(file_path))
    IN  IF dot = 0 THEN ""
        ELSE lower(SubSeq(file_path, dot + 1, Len(file_path)))

FileFound == Evaluated /\ call.content # None

C4_MissingFileFails ==
    (Evaluated /\ call.content = None) =>
        /\ call.extracted = "Error: File not found"
        /\ call.computed = None
        /\ call.result = None

\* evaluate_resume was called on a path with no file
C4_Witness ==
    /\ Evaluated
    /\ call.file_path = "missing.pdf"
    /\ call.file_path \notin DOMAIN fs
    /\ call.result = None

\* C5: for an existing file whose extension is neither pdf nor docx the
\* extractor answers "Unsupported file format" and evaluate_resume returns
\* None.
C5_UnsupportedFormatFails ==
    (FileFound /\ Extension(call.file_path) \notin {"pdf", "docx"}) =>
        /\ call.extracted = "Unsupported file format"
        /\ call.computed = None
        /\ call.result = None

\* evaluate_resume was called on the existing text file
C5_Witness ==
    /\ FileFound
    /\ call.file_path = "notes.txt"
    /\ call.result = None

\* C6: when the PDF or DOCX library fails on an existing file, the extractor
\* returns "Error reading PDF: <detail>" or "Error reading DOCX: <detail>",
\* and evaluate_resume returns None.
C6_LibraryErrorFails ==
    /\ (FileFound /\ Extension(call.file_path) = "pdf"
          /\ call.content.fmt # "pdf") =>
           /\ call.extracted = "Error reading PDF: EOF marker not found"
           /\ call.computed = None
           /\ call.result = None
    /\ (FileFound /\ Extension(call.file_path) = "docx"
          /\ call.content.fmt # "docx") =>
           /\ call.extracted = "Error reading DOCX: File is not a zip file"
           /\ call.computed = None
           /\ call.result = None

\* evaluate_resume was called on a .pdf file that is not a PDF
C6_Witness ==
    /\ FileFound
    /\ call.file_path = "broken.pdf"
    /\ call.content.fmt # "pdf"
    /\ call.result = None

\* C7: when the evaluate_resume call of an upload returns None, the request
\* inserts no evaluation document and answers with a redirect to the upload
\* page carrying the error flash.
C7_FailedUploadStoresNothing ==
    [][(/\ call' # None
        /\ resp' # None
        /\ call'.result = None)
       => /\ evaluations' = evaluations
          /\ next_id' = next_id
          /\ resp'.kind = "redirect"
          /\ resp'.to = "upload"
          /\ resp'.flash[2] = "error"]_vars

\* an upload was saved, its evaluation failed, and the database was
\* reachable
C7_Witness ==
    /\ Evaluated
    /\ resp # None
    /\ call.result = None
    /\ call.file_path \in DOMAIN fs
    /\ cols
    /\ evaluations = << >>

-----------------------------------------------------------------------------
(* The scoring functions applied on their own *)

\* the rest of the system while one function is applied on its own
Detached ==
    /\ nlp = None
    /\ fs = << >>
    /\ now = 0
    /\ mongo_up = FALSE
    /\ client = "None"
    /\ connection_status = FALSE
    /\ cols = FALSE
    /\ evaluations = << >>
    /\ next_id = 1
    /\ call = None
    /\ resp = None
    /\ calls = << >>
    /\ handles = {}
    /\ users = << >>
    /\ sessions = {}

\* paragraphs of a resume, each with the table entries it holds: whether it
\* holds an e-mail address and a phone number, the section headers, action
\* verbs, technical and soft-skill keywords that occur in it in any case,
\* and its number of lines
P_CONTACT ==
    [text |-> "jo.doe@mail.org 555-123-4567", email |-> TRUE, phone |-> TRUE,
     headers |-> {}, verbs |-> {}, technical |-> {"ai"}, soft |-> {},
     lines |-> 1]
P_HEADERS ==
    [text |-> "Experience\nEducation\nSkills", email |-> FALSE,
     phone |-> FALSE, headers |-> {"experience", "education", "skills"},
     verbs |-> {}, technical |-> {}, soft |-> {}, lines |-> 3]
P_HEADERS2 ==
    [text |-> "SUMMARY\nObjective", email |-> FALSE, phone |-> FALSE,
     headers |-> {"summary", "objective"}, verbs |-> {}, technical |-> {},
     soft |-> {}, lines |-> 2]
P_VERBS ==
    [text |-> "Developed managed led created implemented designed\nachieved improved optimized delivered coordinated",
     email |-> FALSE, phone |-> FALSE, headers |-> {},
     verbs |-> {"developed", "managed", "led", "created", "implemented",
                "designed", "achieved", "improved", "optimized", "delivered",
                "coordinated"},
     technical |-> {}, soft |-> {}, lines |-> 2]
P_LINES ==
    [text |-> "a\nb\nc\nd\ne\nf\ng\nh", email |-> FALSE, phone |-> FALSE,
     headers |-> {}, verbs |-> {}, technical |-> {}, soft |-> {},
     lines |-> 8]
P_TECH ==
    [text |-> "Python java SQL aws docker react git", email |-> FALSE,
     phone |-> FALSE, headers |-> {}, verbs |-> {},
     technical |-> {"python", "java", "sql", "aws", "docker", "react", "git"},
     soft |-> {}, lines |-> 1]
P_SOFT ==
    [text |-> "leadership teamwork management creative organized adaptable analytical",
     email |-> FALSE, phone |-> FALSE, headers |-> {}, verbs |-> {},
     technical |-> {},
     soft |-> {"leadership", "teamwork", "management", "creative",
               "organized", "adaptable", "analytical"},
     lines |-> 1]
P_MIXED ==
    [text |-> "kubernetes agile api cloud devops testing communication collaboration",
     email |-> FALSE, phone |-> FALSE, headers |-> {}, verbs |-> {},
     technical |-> {"kubernetes", "agile", "api", "cloud", "devops",
                    "testing"},
     soft |-> {"communication", "collaboration"}, lines |-> 1]

P_STACK ==
    [text |-> "python java javascript sql aws docker kubernetes react node.js git agile api data analytics machine learning ai cloud devops ci/cd testing",
     email |-> FALSE, phone |-> FALSE, headers |-> {}, verbs |-> {},
     technical |-> {"python", "java", "javascript", "sql", "aws", "docker",
                    "kubernetes", "react", "node.js", "git", "agile", "api",
                    "data", "analytics", "machine learning", "ai", "cloud",
                    "devops", "ci/cd", "testing"},
     soft |-> {}, lines |-> 1]

Paragraphs ==
    {P_CONTACT, P_HEADERS, P_HEADERS2, P_VERBS, P_LINES, P_TECH, P_SOFT,
     P_MIXED, P_STACK}

MaxParas == 2

ParaSeqs == UNION {[1..n -> Paragraphs] : n \in 0..MaxParas}

ScoreJobDescriptions == {NoText, "", "python cloud"}

\* the resume made of the paragraphs paras, one per line
ParasText(paras) == JoinLines([i \in 1..Len(paras) |-> paras[i].text], 1)

InitScores ==
    /\ Detached
    /\ \E paras \in ParaSeqs : \E jd \in ScoreJobDescriptions :
           input = [paras |-> paras, text |-> ParasText(paras),
                    job_description |-> jd]
    /\ output = None

\* score = evaluate_ats_compliance(text)
ApplyAts ==
    /\ output = None
    /\ output' = [fn |-> "evaluate_ats_compliance",
                  value |-> evaluate_ats_compliance(input.text)]
    /\ UNCHANGED <<nlp, fs, now, mongo_up, client, connection_status, cols,
                   evaluations, next_id, call, resp, input,
                   calls, handles, users, sessions>>

\* score = evaluate_keywords(text, job_description)
ApplyKeywords ==
    /\ output = None
    /\ output' = [fn |-> "evaluate_keywords",
                  value |-> evaluate_keywords(input.text,
                                              input.job_description)]
    /\ UNCHANGED <<nlp, fs, now, mongo_up, client, connection_status, cols,
                   evaluations, next_id, call, resp, input,
                   calls, handles, users, sessions>>

\* roles = suggest_job_roles(text)
ApplyRoles ==
    /\ output = None
    /\ output' = [fn |-> "suggest_job_roles",
                  value |-> suggest_job_roles(input.text)]
    /\ UNCHANGED <<nlp, fs, now, mongo_up, client, connection_status, cols,
                   evaluations, next_id, call, resp, input,
                   calls, handles, users, sessions>>

\* score = evaluate_skills(text)
ApplySkills ==
    /\ output = None
    /\ output' = [fn |-> "evaluate_skills",
                  value |-> evaluate_skills(input.text)]
    /\ UNCHANGED <<nlp, fs, now, mongo_up, client, connection_status, cols,
                   evaluations, next_id, call, resp, input,
                   calls, handles, users, sessions>>

NextScores == ApplyAts \/ ApplyKeywords \/ ApplyRoles \/ ApplySkills

SpecScores == InitScores /\ [][NextScores]_vars

Applied(fn) == output # None /\ output.fn = fn

\* the entries of the field f that the paragraphs of paras hold together
Held(paras, f) == UNION {paras[i][f] : i \in 1..Len(paras)}

\* C11: without a job description (None or the empty string)
\* evaluate_keywords returns min(100, 200 * found / N), where found counts
\* the N fixed technical and soft-skill keywords that appear in the resume;
\* the score is 0 when none appears and 100 as soon as half of them appear.
C11_DefaultKeywordScore ==
    (Applied("evaluate_keywords") /\ input.job_description \in {NoText, ""}) =>
        LET N == Len(ATS_KEYWORDS.technical) + Len(ATS_KEYWORDS.soft_skills)
            found == Cardinality(Held(input.paras, "technical")
                                 \cup Held(input.paras, "soft"))
            score == output.value
        IN  /\ score.n * N = Min(100 * N, 200 * found) * score.d
            /\ found = 0 => score.n = 0
            /\ 2 * found >= N => score.n = 100 * score.d

\* exactly half of the thirty keywords appear and the score is 100
C11_Witness ==
    /\ Applied("evaluate_keywords")
    /\ input.job_description = ""
    /\ Cardinality(Held(input.paras, "technical")
                   \cup Held(input.paras, "soft")) = 15
    /\ RatEq(output.value, Rat(100, 1))

\* the number of lines of the resume made of the paragraphs paras
RECURSIVE LinesOf(_, _)
LinesOf(paras, i) ==
    IF Len(paras) = 0 THEN 1
    ELSE IF i > Len(paras) THEN 0
    ELSE paras[i].lines + LinesOf(paras, i + 1)

\* C12: evaluate_ats_compliance(text) is min(100, 10 for an e-mail address
\* + 10 for a phone number + min(30, 10 per section header found)
\* + min(20, 2 per action verb found) + min(20, 2 per technical keyword
\* found) + 10 when the text has more than 10 lines); a text with an e-mail
\* address, a phone number and the headers Experience, Education and Skills
\* scores at least 50.
C12_AtsScore ==
    Applied("evaluate_ats_compliance") =>
        LET paras == input.paras
            email == \E i \in 1..Len(paras) : paras[i].email
            phone == \E i \in 1..Len(paras) : paras[i].phone
            headers == Held(paras, "headers")
            sum == (IF email THEN 10 ELSE 0)
                   + (IF phone THEN 10 ELSE 0)
                   + Min(30, 10 * Cardinality(headers))
                   + Min(20, 2 * Cardinality(Held(paras, "verbs")))
                   + Min(20, 2 * Cardinality(Held(paras, "technical")))
                   + (IF LinesOf(paras, 1) > 10 THEN 10 ELSE 0)
        IN  /\ output.value = Min(100, sum)
            /\ (email /\ phone
                /\ {"experience", "education", "skills"} \subseteq headers)
               => output.value >= 50

\* a resume with an e-mail address, a phone number and the three headers,
\* and nothing else that scores but the "ai" of the address
C12_Witness ==
    /\ Applied("evaluate_ats_compliance")
    /\ input.paras = <<P_CONTACT, P_HEADERS>>
    /\ output.value = 52

-----------------------------------------------------------------------------
(* generate_feedback applied on its own *)

MaxMargin == 1

\* scores at both ends of the scale and within MaxMargin of the threshold t
ScoreGrid(t) == {0, 100} \cup ((t - MaxMargin)..(t + MaxMargin - 1))

KeywordGrid == {Rat(v, 1) : v \in ScoreGrid(T_KEYWORD)} \cup {Rat(179, 3)}

FeedbackTexts == {"", "Skills: none"}

InitFeedback ==
    /\ Detached
    /\ \E a \in ScoreGrid(T_ATS) : \E k \in KeywordGrid :
       \E g \in ScoreGrid(T_GRAMMAR) : \E st \in ScoreGrid(T_STRUCTURE) :
       \E sk \in ScoreGrid(T_SKILLS) : \E t \in FeedbackTexts :
           input = [scores |-> [ats_score |-> a, keyword_score |-> k,
                                grammar_score |-> g, structure_score |-> st,
                                skills_score |-> sk],
                    resume_text |-> t]
    /\ output = None

\* feedback = generate_feedback(scores, resume_text)
ApplyFeedback ==
    /\ output = None
    /\ output' = [fn |-> "generate_feedback",
                  value |-> generate_feedback(input.scores,
                                              input.resume_text)]
    /\ UNCHANGED <<nlp, fs, now, mongo_up, client, connection_status, cols,
                   evaluations, next_id, call, resp, input,
                   calls, handles, users, sessions>>

NextFeedback == ApplyFeedback

SpecFeedback == InitFeedback /\ [][NextFeedback]_vars

\* s.split('\n'): the lines of s
Lines(s) ==
    LET cuts == {0, Len(s) + 1} \cup {i \in 1..Len(s) : Ch(s, i) = "\n"}
        cut(k) == CHOOSE p \in cuts : Cardinality({q \in cuts : q < p}) = k
    IN  [k \in 1..(Cardinality(cuts) - 1) |->
            SubSeq(s, cut(k - 1) + 1, cut(k) - 1)]

AREAS == <<"ATS Compliance", "Keywords", "Grammar", "Structure", "Skills">>

\* whether each of the five scores is below its threshold, in the order of
\* AREAS
Weak(scores) == <<
    scores.ats_score < 70,
    scores.keyword_score.n < 60 * scores.keyword_score.d,
    scores.grammar_score < 70,
    scores.structure_score < 70,
    scores.skills_score < 60 >>

\* the first five lines of the feedback are the lines of the five scores in
\* the order ats, keyword, grammar, structure, skills: a warning naming the
\* area below the threshold, an affirmation at or above it; no other line
\* is a warning or an affirmation
ScoreLines(feedback, scores) ==
    LET ls == Lines(feedback)
    IN  /\ Len(ls) >= 5
        /\ \A i \in 1..5 :
               startswith(ls[i], (IF Weak(scores)[i] THEN WARN ELSE CHECK)
                                 \o " " \o AREAS[i] \o ": ")
        /\ \A i \in 6..Len(ls) :
               ~startswith(ls[i], WARN) /\ ~startswith(ls[i], CHECK)

\* C13: generate_feedback emits exactly one line for each of the five
\* scores, in the order ats, keyword, grammar, structure, skills: a warning
\* naming the area when the score is below its threshold (70, 60, 70, 70,
\* 60), an affirming line otherwise; the output is determined by the five
\* scores and is the same whatever the resume text.
C13_FeedbackLines ==
    Applied("generate_feedback") =>
        /\ ScoreLines(output.value, input.scores)
        /\ output.value = generate_feedback(input.scores, "")

\* a non-empty resume text and scores on both sides of their thresholds:
\* keyword 59.67 warns while skills 60 and ats 70 do not
C13_Witness ==
    /\ Applied("generate_feedback")
    /\ input.resume_text # ""
    /\ input.scores.keyword_score = Rat(179, 3)
    /\ input.scores.skills_score = 60
    /\ input.scores.ats_score = 70
    /\ input.scores.grammar_score = 69
    /\ Lines(output.value)[2]
           = WARN \o " Keywords: Include more role-specific keywords and technical skills."
    /\ Lines(output.value)[5] = CHECK \o " Skills: Skills coverage is good."

-----------------------------------------------------------------------------
(* The feedback of an evaluation result *)

\* the five recommendations, the same for every resume
FIVE_RECOMMENDATIONS == <<
    BULLET \o " Keep your resume concise (1-2 pages)",
    BULLET \o " Use action verbs to describe achievements",
    BULLET \o " Quantify your accomplishments with numbers/metrics",
    BULLET \o " Tailor your resume to match the job description",
    BULLET \o " Ensure consistent formatting throughout" >>

\* an empty line and the heading of the recommendations
BLOCK_HEADING == <<"", CLIPBOARD \o " General Recommendations:">>

\* C14 as stated: the feedback of every evaluation result is a list of
\* strings made of the five per-score lines followed by a fixed block of
\* exactly 5 recommendations, and of nothing else.
C14_FiveLinesThenFive ==
    Succeeded =>
        LET ls == Lines(call.result.detailed_feedback)
        IN  /\ ScoreLines(call.result.detailed_feedback, call.computed.scores)
            /\ SubSeq(ls, 6, Len(ls)) = FIVE_RECOMMENDATIONS

\* C14, amended: the feedback of every evaluation result is one string of
\* lines joined by newlines: the five per-score lines followed by a fixed
\* block, identical for every input, of an empty line, the heading
\* "General Recommendations:" and exactly 5 recommendations.
C14_FeedbackBlock ==
    Succeeded =>
        LET ls == Lines(call.result.detailed_feedback)
        IN  /\ ScoreLines(call.result.detailed_feedback, call.computed.scores)
            /\ SubSeq(ls, 6, Len(ls)) = BLOCK_HEADING \o FIVE_RECOMMENDATIONS

\* a result whose feedback has twelve lines, the sixth of them empty, with
\* both a warning and an affirmation among the first five
C14_Witness ==
    /\ Succeeded
    /\ Len(Lines(call.result.detailed_feedback)) = 12
    /\ Lines(call.result.detailed_feedback)[6] = ""
    /\ \E i, j \in 1..5 :
           /\ startswith(Lines(call.result.detailed_feedback)[i], WARN)
           /\ startswith(Lines(call.result.detailed_feedback)[j], CHECK)

-----------------------------------------------------------------------------
(* The section parser: utils/nlp.py *)

SECTION_HEADERS == <<
    "summary", "objective", "education", "experience", "work experience",
    "projects", "skills", "certifications", "achievements", "publications",
    "volunteering", "contact", "links" >>

\* mutant: the header is searched as a substring, without the two \b
word_search_substring(s, h) ==
    LET hits == {i \in 1..(Len(s) - Len(h) + 1) :
                    SubSeq(s, i, i + Len(h) - 1) = h}
    IN  IF hits = {} THEN 0
        ELSE CHOOSE i \in hits : \A k \in hits : i <= k

\* re.search(rf'\b{re.escape(h)}\b', s): the position of the first match,
\* counted from 1, or 0 when there is none
word_search(s, h) ==
    LET hits == {i \in 1..(Len(s) - Len(h) + 1) :
                    /\ SubSeq(s, i, i + Len(h) - 1) = h
                    /\ Boundary(s, i)
                    /\ Boundary(s, i + Len(h))}
    IN  IF hits = {} THEN 0
        ELSE CHOOSE i \in hits : \A k \in hits : i <= k

\* the list indices before indices.sort(): one (pos, name) for each header
\* found, in the order of SECTION_HEADERS
found_headers(lower_text) ==
    LET at == [k \in 1..Len(SECTION_HEADERS) |->
                  word_search(lower_text, SECTION_HEADERS[k])]
        hit == SelectSeq([k \in 1..Len(SECTION_HEADERS) |-> k],
                         LAMBDA k : at[k] > 0)
    IN  [i \in 1..Len(hit) |-> [pos |-> at[hit[i]],
                                name |-> SECTION_HEADERS[hit[i]]]]

\* mutant: indices.sort() is left out
sorted_indices_unsorted(idx) == idx

\* indices.sort(): by position; no two headers begin at the same position
sorted_indices(idx) ==
    LET rank(i) == Cardinality({k \in 1..Len(idx) : idx[k].pos < idx[i].pos})
    IN  [r \in 1..Len(idx) |->
            idx[CHOOSE i \in 1..Len(idx) : rank(i) = r - 1]]

\* the entries the loop over indices stores: sections[name] =
\* text[start:end].strip(), in the order of the sorted list
header_sections(text, idx) ==
    [i \in 1..Len(idx) |->
        [name |-> idx[i].name,
         value |-> strip(SubSeq(text, idx[i].pos,
                                IF i < Len(idx) THEN idx[i + 1].pos - 1
                                ELSE Len(text)),
                         SpaceSet)]]

\* p occurs in s at position i
MatchAt(s, i, p) ==
    i + Len(p) - 1 <= Len(s) /\ SubSeq(s, i, i + Len(p) - 1) = p

\* where (?:education|experience|projects|\n\n|$) ends when it matches at
\* position e of s, or 0 when it does not match there
terminator_end(s, e) ==
    IF MatchAt(s, e, "education") THEN e + 9
    ELSE IF MatchAt(s, e, "experience") THEN e + 10
    ELSE IF MatchAt(s, e, "projects") THEN e + 8
    ELSE IF MatchAt(s, e, "\n\n") THEN e + 2
    ELSE IF e = Len(s) + 1 \/ (e = Len(s) /\ Ch(s, e) = "\n") THEN e
    ELSE 0

\* where (.+?)(?:...) ends when the group begins at position b of s, or 0:
\* the group takes at least one character, none of them a newline, and as
\* few as a terminator allows
lazy_group_end(s, b) ==
    LET line_end == RunEnd(s, b, CharsOf(s) \ {"\n"})
        stops == {e \in (b + 1)..(line_end + 1) : terminator_end(s, e) > 0}
    IN  IF stops = {} THEN 0
        ELSE terminator_end(s, CHOOSE e \in stops : \A k \in stops : e <= k)

\* where the pattern skills?[:\-]\s*(.+?)(?:...) ends when it matches from
\* position i of s, or 0: \s* takes as much whitespace as leaves a match
skills_match_end(s, i) ==
    LET j == IF MatchAt(s, i + 5, "s") THEN i + 6 ELSE i + 5
        w == RunEnd(s, j + 1, SpaceSet)
        begins == {b \in (j + 1)..(w + 1) : lazy_group_end(s, b) > 0}
    IN  IF MatchAt(s, i, "skill")
           /\ (MatchAt(s, j, ":") \/ MatchAt(s, j, "-"))
           /\ begins # {}
        THEN lazy_group_end(s, CHOOSE b \in begins : \A k \in begins : b >= k)
        ELSE 0

\* re.search(r'skills?[:\-]\s*(.+?)(?:education|experience|projects|\n\n|$)',
\* s): None, or m.start() and m.end() counted from 1
skills_search(s) ==
    LET hits == {i \in 1..Len(s) : skills_match_end(s, i) > 0}
    IN  IF hits = {} THEN None
        ELSE LET i == CHOOSE i \in hits : \A k \in hits : i <= k
             IN  [start |-> i, end |-> skills_match_end(s, i)]

HasKey(sections, name) == \E i \in 1..Len(sections) : sections[i].name = name

\* the dict after the block "fallback minimal sections"
with_skills_fallback(text, lower_text, sections) ==
    IF HasKey(sections, "skills") THEN sections
    ELSE LET m == skills_search(lower_text)
         IN  IF m = None THEN sections
             ELSE Append(sections,
                         [name |-> "skills",
                          value |-> SubSeq(text, m.start, m.end - 1)])

\* mutant: the function returns sections, without "or {'full': text}"
parse_resume_sections_bare(text) ==
    with_skills_fallback(
        text, lower(text),
        header_sections(text, sorted_indices(found_headers(lower(text)))))

\* parse_resume_sections(text): the dict as the sequence of its entries in
\* insertion order
parse_resume_sections(text) ==
    LET lower_text == lower(text)
        indices == sorted_indices(found_headers(lower_text))
        sections == with_skills_fallback(text, lower_text,
                                         header_sections(text, indices))
    IN  IF Len(sections) > 0 THEN sections
        ELSE <<[name |-> "full", value |-> text]>>

-----------------------------------------------------------------------------
(* parse_resume_sections applied on its own *)

Pieces ==
    {"Summary: dev ", "Work Experience ", "skill: java ", "Skills- sql\n\n",
     "x", "Education bsc\n", "objective", "links"}

MaxPieces == 3

PieceSeqs == UNION {[1..n -> Pieces] : n \in 0..MaxPieces}

InitSections ==
    /\ Detached
    /\ \E pieces \in PieceSeqs :
           input = [pieces |-> pieces,
                    text |-> ConcatAll(pieces, 1, Len(pieces))]
    /\ output = None

\* sections = parse_resume_sections(text)
ApplySections ==
    /\ output = None
    /\ output' = [fn |-> "parse_resume_sections",
                  value |-> parse_resume_sections(input.text)]
    /\ UNCHANGED <<nlp, fs, now, mongo_up, client, connection_status, cols,
                   evaluations, next_id, call, resp, input,
                   calls, handles, users, sessions>>

NextSections == ApplySections

SpecSections == InitSections /\ [][NextSections]_vars

\* the header h stands in s at position i as a whole word
WholeWordAt(s, i, h) ==
    /\ MatchAt(s, i, h)
    /\ ~IsWordAt(s, i - 1)
    /\ ~IsWordAt(s, i + Len(h))

\* the positions at which h stands as a whole word in the lower-cased text
\* lt
Occurrences(lt, h) == {i \in 1..Len(lt) : WholeWordAt(lt, i, h)}

\* the header h occurs as a whole word
Found(lt, h) == Occurrences(lt, h) # {}

\* the position of the first whole-word occurrence of h
FirstAt(lt, h) ==
    CHOOSE i \in Occurrences(lt, h) : \A k \in Occurrences(lt, h) : i <= k

\* the section names of SECTION_HEADERS found in the text as whole words, in
\* any case
FoundHeaders(text) ==
    LET lt == lower(text)
    IN  {h \in Range(SECTION_HEADERS) : Found(lt, h)}

NoHeaderFound(text) == FoundHeaders(text) = {}

FullOnly(text) == <<[name |-> "full", value |-> text]>>

\* C15 as stated: parse_resume_sections never returns an empty map, and
\* whenever no header keyword occurs in the text as a whole word it returns
\* exactly the single entry 'full' -> text.
C15_FullWhenNoHeader ==
    Applied("parse_resume_sections") =>
        /\ Len(output.value) > 0
        /\ NoHeaderFound(input.text) => output.value = FullOnly(input.text)

\* C15, amended: parse_resume_sections never returns an empty map, and
\* whenever no header keyword occurs in the text as a whole word and the
\* skills fallback pattern ("skill" or "skills" directly followed by ":" or
\* "-" and by further text) does not match either, it returns exactly the
\* single entry 'full' -> text.
C15_FullWhenNothingFound ==
    Applied("parse_resume_sections") =>
        /\ Len(output.value) > 0
        /\ (NoHeaderFound(input.text)
            /\ skills_search(lower(input.text)) = None)
           => output.value = FullOnly(input.text)

\* a text that holds a header keyword, but not as a whole word, and no
\* match of the fallback pattern: the map is the single entry 'full'
C15_Witness ==
    /\ Applied("parse_resume_sections")
    /\ input.text = "xSummary: dev "
    /\ NoHeaderFound(input.text)
    /\ output.value = FullOnly(input.text)

\* the entries 1..n of the map m are the headers found in the text, in the
\* order of their first whole-word occurrences, and the value of each is the
\* text from its occurrence to the next one (to the end of the text for the
\* last), without the whitespace around it
SpansInOrder(m, n, text) ==
    LET lt == lower(text)
        begin(i) == FirstAt(lt, m[i].name)
    IN  /\ {m[i].name : i \in 1..n} = FoundHeaders(text)
        /\ \A i \in 1..(n - 1) : begin(i) < begin(i + 1)
        /\ \A i \in 1..n :
               m[i].value
                   = strip(SubSeq(text, begin(i),
                                  IF i < n THEN begin(i + 1) - 1
                                  ELSE Len(text)),
                           SpaceSet)

HeaderEntries(m, text) ==
    Cardinality({i \in 1..Len(m) : m[i].name \in FoundHeaders(text)})

SECTION_NAMES ==
    {"summary", "experience", "education", "skills", "projects",
     "certifications", "achievements", "publications", "volunteering",
     "contact", "links"}

\* C17 as stated: every key of the map returned by parse_resume_sections is
\* one of the eleven enumerated section names, or 'full' in the no-header
\* fallback, and a key is present only when its header keyword was found in
\* the text as a whole word.
C17_EnumeratedKeys ==
    Applied("parse_resume_sections") =>
        LET m == output.value
            lt == lower(input.text)
        IN  \A i \in 1..Len(m) :
                \/ /\ m[i].name = "full"
                   /\ NoHeaderFound(input.text)
                \/ /\ m[i].name \in SECTION_NAMES
                   /\ Found(lt, m[i].name)

\* C17, amended: every key of the map returned by parse_resume_sections is
\* one of the thirteen section names summary, objective, education,
\* experience, work experience, projects, skills, certifications,
\* achievements, publications, volunteering, contact, links, or 'full' when
\* nothing was found; a key other than 'full' is present only when its
\* header keyword was found in the text as a whole word, except 'skills',
\* which is also present when the skills fallback pattern matches.
C17_HeaderKeys ==
    Applied("parse_resume_sections") =>
        LET m == output.value
            lt == lower(input.text)
        IN  \A i \in 1..Len(m) :
                \/ /\ m[i].name = "full"
                   /\ NoHeaderFound(input.text)
                   /\ skills_search(lt) = None
                \/ /\ m[i].name
                          \in SECTION_NAMES \cup {"objective", "work experience"}
                   /\ \/ Found(lt, m[i].name)
                      \/ m[i].name = "skills" /\ skills_search(lt) # None

\* a text whose keys are 'work experience', 'experience' and 'objective',
\* each found as a whole word
C17_Witness ==
    /\ Applied("parse_resume_sections")
    /\ input.text = "Work Experience objective"
    /\ output.value
           = <<[name |-> "work experience", value |-> "Work"],
               [name |-> "experience", value |-> "Experience"],
               [name |-> "objective", value |-> "objective"]>>

-----------------------------------------------------------------------------
(* The ranking of suggest_job_roles *)

\* the number of keywords of the r-th role of JOB_ROLES present in the
\* lower-cased text lt
RoleScore(lt, r) ==
    Cardinality({kw \in Range(JOB_ROLES[r].kws) :
                    \E i \in 1..Len(lt) : MatchAt(lt, i, kw)})

\* the place of the role name in JOB_ROLES
Declared(role) == CHOOSE r \in 1..Len(JOB_ROLES) : JOB_ROLES[r].role = role

\* C18: suggest_job_roles returns the roles with score > 0 (the number of
\* the role's keywords present in the text) by descending score, ties in
\* the declaration order of JOB_ROLES, cut to the first 3: no omitted role
\* has a strictly higher score than a returned one, and of two roles with
\* equal scores the earlier-declared one is never omitted in favour of the
\* later-declared one.
C18_RolesRanked ==
    Applied("suggest_job_roles") =>
        LET lt == lower(input.text)
            score == [r \in 1..Len(JOB_ROLES) |-> RoleScore(lt, r)] \o << >>
            positive == {r \in 1..Len(JOB_ROLES) : score[r] > 0}
            roles == output.value
        IN  positive # {} =>
                LET at == [k \in 1..Len(roles) |-> Declared(roles[k])] \o << >>
                    returned == Range(at)
                IN  /\ \A k \in 1..Len(roles) :
                           \E r \in positive : JOB_ROLES[r].role = roles[k]
                    /\ Len(roles) = Min(3, Cardinality(positive))
                    /\ \A k \in 1..(Len(at) - 1) :
                           \/ score[at[k]] > score[at[k + 1]]
                           \/ /\ score[at[k]] = score[at[k + 1]]
                              /\ at[k] < at[k + 1]
                    /\ \A o \in positive \ returned : \A r \in returned :
                           \/ score[o] < score[r]
                           \/ score[o] = score[r] /\ r < o

\* five roles score above 0; the three returned are led by a later-declared
\* role with the highest score, and the last of them ties with an omitted,
\* later-declared role
C18_Witness ==
    /\ Applied("suggest_job_roles")
    /\ input.paras = <<P_TECH, P_MIXED>>
    /\ output.value = <<"DevOps Engineer", "Software Developer", "Data Analyst">>
    /\ RoleScore(lower(input.text), Declared("Data Analyst"))
           = RoleScore(lower(input.text), Declared("Data Scientist"))
    /\ RoleScore(lower(input.text), Declared("Product Manager")) > 0

-----------------------------------------------------------------------------
(* evaluate_structure applied on its own *)

\* s repeated n times
RECURSIVE Rep(_, _)
Rep(s, n) ==
    IF n = 0 THEN ""
    ELSE IF n = 1 THEN s
    ELSE Rep(s, n \div 2) \o Rep(s, n - n \div 2)

\* n one-letter words
Filler(n) == [text |-> "a" \o Rep(" a", n - 1), words |-> n,
              categories |-> {}, marker |-> FALSE]

\* blocks of a resume, each with its number of words, the section
\* categories whose keywords it holds, and whether it holds a bullet
\* character, a hyphen or a numbered-list line
B_198 == Filler(198)
B_298 == Filler(298)
B_798 == Filler(798)
B_TWO == [text |-> "b c", words |-> 2, categories |-> {}, marker |-> FALSE]
B_FOUR == [text |-> "b c d e", words |-> 4, categories |-> {},
           marker |-> FALSE]
B_CONTACT == [text |-> "Email - LinkedIn", words |-> 3,
              categories |-> {"contact"}, marker |-> TRUE]
B_SECTIONS == [text |-> "Profile Employment\nDegree Competencies",
               words |-> 4,
               categories |-> {"summary", "experience", "education",
                               "skills"},
               marker |-> FALSE]
B_BULLET == [text |-> BULLET \o " item", words |-> 2, categories |-> {},
             marker |-> TRUE]
B_HYPHEN == [text |-> "well-known", words |-> 1, categories |-> {},
             marker |-> TRUE]
B_NUMBERED == [text |-> "x\n 2. y", words |-> 3, categories |-> {},
               marker |-> TRUE]

Blocks ==
    {B_198, B_298, B_798, B_TWO, B_FOUR, B_CONTACT, B_SECTIONS, B_BULLET,
     B_HYPHEN, B_NUMBERED}

MaxBlocks == 2

BlockSeqs == UNION {[1..n -> Blocks] : n \in 0..MaxBlocks}

\* the blocks one after the other, a space between two of them
RECURSIVE BlocksText(_, _)
BlocksText(blocks, i) ==
    IF i > Len(blocks) THEN ""
    ELSE IF i = Len(blocks) THEN blocks[i].text
    ELSE blocks[i].text \o " " \o BlocksText(blocks, i + 1)

InitStructure ==
    /\ Detached
    /\ \E blocks \in BlockSeqs :
           input = [blocks |-> blocks, text |-> BlocksText(blocks, 1)]
    /\ output = None

\* score = evaluate_structure(text)
ApplyStructure ==
    /\ output = None
    /\ output' = [fn |-> "evaluate_structure",
                  value |-> evaluate_structure(input.text)]
    /\ UNCHANGED <<nlp, fs, now, mongo_up, client, connection_status, cols,
                   evaluations, next_id, call, resp, input,
                   calls, handles, users, sessions>>

NextStructure == ApplyStructure

SpecStructure == InitStructure /\ [][NextStructure]_vars

\* the number of words of the blocks from i on
RECURSIVE WordsOfBlocks(_, _)
WordsOfBlocks(blocks, i) ==
    IF i > Len(blocks) THEN 0
    ELSE blocks[i].words + WordsOfBlocks(blocks, i + 1)

\* C19: evaluate_structure(text) is min(100, 20 for each of the five section
\* categories contact, summary, experience, education, skills detected by
\* its keywords + (10 when the word count is in [300, 800], else 5 when it
\* is in [200, 1000], else 0) + (10 when bullet markers or a numbered-list
\* pattern are present, else 0)).
C19_StructureScore ==
    Applied("evaluate_structure") =>
        LET blocks == input.blocks
            words == WordsOfBlocks(blocks, 1)
            detected == UNION {blocks[i].categories : i \in 1..Len(blocks)}
            marked == \E i \in 1..Len(blocks) : blocks[i].marker
        IN  output.value
                = Min(100,
                      20 * Cardinality(detected)
                      + (IF words \in 300..800 THEN 10
                         ELSE IF words \in 200..1000 THEN 5
                         ELSE 0)
                      + (IF marked THEN 10 ELSE 0))

\* exactly 300 words, none of them a section keyword or a marker: only the
\* word count scores
C19_Witness ==
    /\ Applied("evaluate_structure")
    /\ WordsOfBlocks(input.blocks, 1) = 300
    /\ \A i \in 1..Len(input.blocks) :
           input.blocks[i].categories = {} /\ ~input.blocks[i].marker
    /\ output.value = 10

-----------------------------------------------------------------------------
(* evaluate_grammar applied on its own *)

MaxSents == 5

\* the token counts of a sentence: short, 50 tokens, 51 tokens
SentenceLengths == {3, 50, 51}

GrammarDocs ==
    [sents : UNION {[1..n -> SentenceLengths] : n \in 0..MaxSents},
     upper : BOOLEAN]

GRAMMAR_TEXT == "the resume"

InitGrammar ==
    /\ nlp \in {None} \cup {[t \in {GRAMMAR_TEXT} |-> d] : d \in GrammarDocs}
    /\ fs = << >>
    /\ now = 0
    /\ mongo_up = FALSE
    /\ client = "None"
    /\ connection_status = FALSE
    /\ cols = FALSE
    /\ evaluations = << >>
    /\ next_id = 1
    /\ call = None
    /\ resp = None
    /\ input = [text |-> GRAMMAR_TEXT]
    /\ output = None
    /\ calls = << >>
    /\ handles = {}
    /\ users = << >>
    /\ sessions = {}

\* score = evaluate_grammar(text)
ApplyGrammar ==
    /\ output = None
    /\ output' = [fn |-> "evaluate_grammar",
                  value |-> evaluate_grammar(nlp, input.text)]
    /\ UNCHANGED <<nlp, fs, now, mongo_up, client, connection_status, cols,
                   evaluations, next_id, call, resp, input,
                   calls, handles, users, sessions>>

NextGrammar == ApplyGrammar

SpecGrammar == InitGrammar /\ [][NextGrammar]_vars

\* the number of sentences of more than 50 tokens among those from i on
RECURSIVE LongFrom(_, _)
LongFrom(sents, i) ==
    IF i > Len(sents) THEN 0
    ELSE (IF sents[i] > 50 THEN 1 ELSE 0) + LongFrom(sents, i + 1)

\* C20: evaluate_grammar returns the fixed default 75 when no grammar
\* backend is loaded; otherwise it returns max(0, 100 - 20 when the document
\* has fewer than 5 sentences - min(20, 5 per sentence longer than 50
\* tokens) - 10 when no alphabetic token begins with an uppercase letter).
C20_GrammarScore ==
    Applied("evaluate_grammar") =>
        IF nlp = None THEN output.value = 75
        ELSE LET doc == nlp[input.text]
             IN  output.value
                     = Max(0, 100
                              - (IF Len(doc.sents) < 5 THEN 20 ELSE 0)
                              - Min(20, 5 * LongFrom(doc.sents, 1))
                              - (IF doc.upper THEN 0 ELSE 10))

\* a loaded backend and a document of five sentences, all of them long, one
\* of them with a capitalised word: only the capped 20 points are lost
C20_Witness ==
    /\ Applied("evaluate_grammar")
    /\ nlp # None
    /\ nlp[input.text] = [sents |-> <<51, 51, 51, 51, 51>>, upper |-> TRUE]
    /\ output.value = 80

-----------------------------------------------------------------------------
(* evaluate_skills *)

\* C21: evaluate_skills(text) is min(5 for each distinct technical keyword
\* found in the text + 3 for each distinct soft-skill keyword found, 100).
C21_SkillsScore ==
    Applied("evaluate_skills") =>
        output.value
            = Min(5 * Cardinality(Held(input.paras, "technical"))
                  + 3 * Cardinality(Held(input.paras, "soft")),
                  100)

\* all twenty technical keywords and seven soft skills: 121 points before
\* the clamp, 100 returned
C21_Witness ==
    /\ Applied("evaluate_skills")
    /\ Cardinality(Held(input.paras, "technical")) = 20
    /\ Cardinality(Held(input.paras, "soft")) = 7
    /\ output.value = 100

-----------------------------------------------------------------------------
(* Extraction and failure of an evaluation *)

\* the call read a readable PDF through the PDF extractor
ReadPdf ==
    /\ Evaluated
    /\ call.content # None
    /\ call.content.fmt = "pdf"
    /\ endswith(lower(call.file_path), ".pdf")

\* the texts of the pages, a page without extractable text counted as empty
PageTexts(parts) ==
    [i \in 1..Len(parts) |-> IF parts[i] = NoText THEN "" ELSE parts[i]]

\* C22: partial extraction is not a failure: extract_text_from_pdf returns
\* the texts of the pages concatenated in page order, a page without
\* extractable text contributing the empty string, and evaluate_resume on a
\* PDF whose pages yield little or no text still returns a result.
C22_PartialExtractionSucceeds ==
    ReadPdf =>
        /\ call.extracted
               = ConcatAll(PageTexts(call.content.parts), 1,
                           Len(call.content.parts))
        /\ call.result # None

\* the extractor of the call reported a failure: no file at the path, an
\* extension that is neither pdf nor docx, or a library error on the file
ExtractionFailed ==
    \/ call.content = None
    \/ Extension(call.file_path) \notin {"pdf", "docx"}
    \/ call.content.fmt # Extension(call.file_path)

\* C25: evaluate_resume returns None only when the extraction reported
\* file-not-found, an unsupported format or a library error: every text
\* extracted from an existing pdf or docx file, whatever its content (a text
\* that begins with "Error", the text "Unsupported file format", the empty
\* text), yields a result.
C25_FailureOnlyOnExtractionFailure ==
    (Evaluated /\ call.result = None) => ExtractionFailed

-----------------------------------------------------------------------------
(* Concurrent calls of evaluate_resume, step by step *)

\* calls[k] is the k-th call made: where it stands (pc), its arguments, its
\* local variable resume_text (NoText before it is bound) and the value it
\* returned (None before it returns, and when it returns None).  The steps
\* of a call are the points where another thread can run in between: the
\* open of the PDF, the read of its pages, the exit of the with block, and
\* the scoring.
MaxCalls == 2

NewCall(file_path, job_description) ==
    [pc |-> "extract", file_path |-> file_path,
     job_description |-> job_description, resume_text |-> NoText,
     result |-> None]

\* evaluate_resume(file_path, job_description) is called
CallStart(file_path, job_description) ==
    /\ Len(calls) < MaxCalls
    /\ calls' = Append(calls, NewCall(file_path, job_description))
    /\ UNCHANGED <<nlp, fs, now, mongo_up, client, connection_status, cols,
                   evaluations, next_id, call, resp, input, output,
                   handles, users, sessions>>

\* extract_text_from_file up to the point where the file is opened or the
\* text is known: [pc, resume_text, opens]
dispatch(fsv, file_path) ==
    IF ~exists(fsv, file_path)
    THEN [pc |-> "score", resume_text |-> FILE_NOT_FOUND, opens |-> FALSE]
    ELSE IF endswith(lower(file_path), ".pdf")
    THEN [pc |-> "reading", resume_text |-> NoText, opens |-> TRUE]
    ELSE IF endswith(lower(file_path), ".docx")
    THEN [pc |-> "score", resume_text |-> extract_text_from_docx(fsv, file_path),
          opens |-> FALSE]
    ELSE [pc |-> "score", resume_text |-> UNSUPPORTED, opens |-> FALSE]

\* lines 75-82 and 53-56: the existence tests, the dispatch on the extension
\* and, for a PDF, open(file_path, 'rb').  extract_text_from_docx hands the
\* path to Document() and opens no file itself.
CallDispatch(k) ==
    /\ calls[k].pc = "extract"
    /\ LET d == dispatch(fs, calls[k].file_path)
       IN  /\ calls' = [calls EXCEPT ![k].pc = d.pc,
                                     ![k].resume_text = d.resume_text]
           /\ handles' = IF d.opens THEN handles \cup {k} ELSE handles
    /\ UNCHANGED <<nlp, fs, now, mongo_up, client, connection_status, cols,
                   evaluations, next_id, call, resp, input, output,
                   users, sessions>>

\* mutant: the file is opened without a with block and closed after the
\* loop, so that an exception of the reader skips the close
after_read_unscoped(raised) == IF raised THEN "score" ELSE "closing"

\* where a call stands after the body of the with block, whether the body
\* returned or raised: the exit of the with block comes next
after_read(raised) == "closing"

\* lines 57-63: PdfReader(file) and the loop over the pages, inside the with
\* block; the value to return is the text, or the message of the except
\* clause when the reader raised
CallPdfRead(k) ==
    /\ calls[k].pc = "reading"
    /\ LET raised == fs[calls[k].file_path].fmt # "pdf"
       IN  calls' = [calls EXCEPT
                       ![k].pc = after_read(raised),
                       ![k].resume_text =
                           extract_text_from_pdf(fs, calls[k].file_path)]
    /\ UNCHANGED <<nlp, fs, now, mongo_up, client, connection_status, cols,
                   evaluations, next_id, call, resp, input, output,
                   handles, users, sessions>>

\* the exit of the with block closes the file, on return and on exception
CallPdfClose(k) ==
    /\ calls[k].pc = "closing"
    /\ handles' = handles \ {k}
    /\ calls' = [calls EXCEPT ![k].pc = "score"]
    /\ UNCHANGED <<nlp, fs, now, mongo_up, client, connection_status, cols,
                   evaluations, next_id, call, resp, input, output,
                   users, sessions>>

\* mutant: the extracted text is kept in a module-level variable that the
\* latest call has written
text_of_shared(cs, k) == cs[Len(cs)].resume_text

\* the local variable resume_text of call k
text_of(cs, k) == cs[k].resume_text

\* lines 236-277 on the text of call k: the early return or the result dict
scored(nlpv, resume_text, job_description) ==
    IF IsFailureText(resume_text) THEN None
    ELSE result_dict(compute_scores(nlpv, resume_text, job_description),
                     resume_text)

\* the rest of evaluate_resume: the test of the text, the scoring functions
\* and the return
CallScore(k) ==
    /\ calls[k].pc = "score"
    /\ text_of(calls, k) # NoText
    /\ calls' = [calls EXCEPT
                   ![k].pc = "returned",
                   ![k].result = scored(nlp, text_of(calls, k),
                                        calls[k].job_description)]
    /\ UNCHANGED <<nlp, fs, now, mongo_up, client, connection_status, cols,
                   evaluations, next_id, call, resp, input, output,
                   handles, users, sessions>>

InitCalls ==
    /\ nlp \in {None, SysNlp}
    /\ fs = InitialFiles
    /\ now = 0
    /\ mongo_up = FALSE
    /\ client = "None"
    /\ connection_status = FALSE
    /\ cols = FALSE
    /\ evaluations = << >>
    /\ next_id = 1
    /\ call = None
    /\ resp = None
    /\ input = None
    /\ output = None
    /\ calls = << >>
    /\ handles = {}
    /\ users = << >>
    /\ sessions = {}

NextCalls ==
    \/ \E file_path \in CallPaths \cup DOMAIN fs :
         \E job_description \in CallJobDescriptions :
           CallStart(file_path, job_description)
    \/ \E k \in 1..Len(calls) : CallDispatch(k)
    \/ \E k \in 1..Len(calls) : CallPdfRead(k)
    \/ \E k \in 1..Len(calls) : CallPdfClose(k)
    \/ \E k \in 1..Len(calls) : CallScore(k)

SpecCalls == InitCalls /\ [][NextCalls]_vars

\* C23: after a call of evaluate_resume has returned, with a result or with
\* None, no file handle opened by that call is still open; this holds after
\* a normal return and after an error of the extraction library alike.
C23_HandleReleased ==
    \A k \in 1..Len(calls) :
        calls[k].pc = "returned" => k \notin handles

\* a call on a file the PDF reader rejects has returned None and holds no
\* handle, while another call still holds its own
C23_Witness ==
    \E k \in 1..Len(calls), j \in 1..Len(calls) :
        /\ calls[k].pc = "returned"
        /\ startswith(calls[k].resume_text, "Error reading PDF")
        /\ calls[k].result = None
        /\ k \notin handles
        /\ j \in handles


\* C24: concurrent calls of evaluate_resume share no mutable state: however
\* their steps interleave, the value a call returns is the value
\* evaluate_resume returns for its arguments when it runs alone, and no step
\* of a call changes the loaded grammar backend or the files.  (The keyword
\* tables and the role table are definitions of this module: no statement
\* of the code assigns to them.)
C24_CallsIndependent ==
    [][/\ nlp' = nlp
       /\ fs' = fs
       /\ \A k \in 1..Len(calls) :
            (calls[k].pc = "score" /\ calls'[k].pc = "returned")
                => calls'[k].result
                       = evaluate_resume(nlp, fs, calls[k].file_path,
                                         calls[k].job_description)]_vars

\* a call has returned its result while another call, on another file, was
\* between its first and its last step
C24_Witness ==
    \E k \in 1..Len(calls), j \in 1..Len(calls) :
        /\ calls[k].pc = "returned"
        /\ calls[k].result # None
        /\ calls[j].pc \in {"reading", "closing", "score"}
        /\ calls[j].file_path # calls[k].file_path
        /\ calls[j].resume_text # calls[k].resume_text

-----------------------------------------------------------------------------
(* The job-description match and the keyword score of one evaluation *)

\* The two functions are applied to a resume and a job description that are
\* lists of distinct six-character words: the job description holds the
\* words Word(1) .. Word(n) once each, in this order, separated by blanks,
\* and the resume holds the same words but those of dropped.  On such texts
\* re.findall(r'\b\w{4,}\b', ...) yields the words in order, and
\* Counter(...).most_common(20) the first 20 of them (equal counts keep the
\* order of first insertion), so the token lists are written down directly.
ManyWords == 20001

\* the number i < 100000 as five decimal digits
Digits5(i) ==
    Ch(DIGITS, ((i \div 10000) % 10) + 1)
        \o Ch(DIGITS, ((i \div 1000) % 10) + 1)
        \o Ch(DIGITS, ((i \div 100) % 10) + 1)
        \o Ch(DIGITS, ((i \div 10) % 10) + 1)
        \o Ch(DIGITS, (i % 10) + 1)

Word(i) == "w" \o Digits5(i)

\* Word(lo) .. Word(hi), joined by blanks
RECURSIVE WordsText(_, _)
WordsText(lo, hi) ==
    IF lo > hi THEN ""
    ELSE IF lo = hi THEN Word(lo)
    ELSE LET mid == (lo + hi) \div 2
         IN  WordsText(lo, mid) \o " " \o WordsText(mid + 1, hi)

\* the resume: Word(1) .. Word(n) with the words of dropped blanked out
RECURSIVE ResumeText(_, _, _)
ResumeText(lo, hi, dropped) ==
    IF lo > hi THEN ""
    ELSE IF lo = hi THEN (IF lo \in dropped THEN "" ELSE Word(lo))
    ELSE LET mid == (lo + hi) \div 2
         IN  ResumeText(lo, mid, dropped) \o " "
                 \o ResumeText(mid + 1, hi, dropped)

JdSizes == (0..5) \cup (20..23) \cup {ManyWords}

DropPool == {1, 2, 21, 22}

MatchInputs ==
    {[n |-> n, dropped |-> d] :
        n \in JdSizes,
        d \in SUBSET DropPool}

InitMatch ==
    /\ Detached
    /\ input \in {i \in MatchInputs :
                     /\ i.dropped \subseteq 1..i.n
                     /\ i.n = ManyWords => i.dropped \subseteq {1, 21}}
    /\ output = None

\* lines 112-115 and 122, 180-184, and the rounding of lines 268 and 272, on
\* the tokens of the two texts: jd_freq, the words of the job description,
\* the words of the resume and the lower-cased resume
match_and_keywords(job_description, text_lower, resume_words, jd_words, jd_freq) ==
    LET keyword_score ==
            RatMin(IF Truthy(job_description)
                   THEN jd_keyword_score(text_lower, jd_freq, 50)
                   ELSE default_keyword_score(text_lower),
                   Rat(100, 1))
        jd_match == IF ~Truthy(job_description) THEN Rat(0, 1)
                    ELSE jd_match_of(resume_words, jd_words)
    IN  [jd_match |-> jd_match,
         jd_match_percentage |-> round2(jd_match),
         keyword_score |-> round2(keyword_score)]

\* keyword_score = evaluate_keywords(resume_text, job_description) and
\* jd_match = calculate_jd_match(resume_text, job_description), rounded as
\* in the result dict
ApplyMatch ==
    /\ output = None
    /\ output' =
         [fn |-> "jd_match",
          value |->
              match_and_keywords(
                  WordsText(1, input.n),
                  lower(ResumeText(1, input.n, input.dropped)),
                  {Word(i) : i \in (1..input.n) \ input.dropped},
                  {Word(i) : i \in 1..input.n},
                  [k \in 1..Min(TOP_WORDS, input.n) |-> Word(k)])]
    /\ UNCHANGED <<nlp, fs, now, mongo_up, client, connection_status, cols,
                   evaluations, next_id, call, resp, input,
                   calls, handles, users, sessions>>

NextMatch == ApplyMatch

SpecMatch == InitMatch /\ [][NextMatch]_vars

\* the token lists ApplyMatch writes down are those the tokenizer finds on
\* the two texts (evaluated up to 23 words)
TokensAgree ==
    input.n < ManyWords =>
        LET jd == WordsText(1, input.n)
            text == ResumeText(1, input.n, input.dropped)
        IN  /\ findall_words(lower(jd))
                  = [k \in 1..input.n |-> Word(k)]
            /\ jd_top_words(jd)
                  = [k \in 1..Min(TOP_WORDS, input.n) |-> Word(k)]
            /\ Range(findall_words(lower(text)))
                  = {Word(i) : i \in (1..input.n) \ input.dropped}
            /\ Applied("jd_match") =>
                 /\ RatEq(output.value.jd_match, calculate_jd_match(text, jd))
                 /\ output.value.keyword_score
                        = round2(evaluate_keywords(text, jd))

\* C26 as stated: a jd_match_percentage of 100 comes with a keyword_score of
\* 100, for every job description with a word of at least 4 characters
C26_RoundedMatchImpliesKeywords ==
    (Applied("jd_match") /\ input.n >= 1
        /\ output.value.jd_match_percentage = 10000)
        => output.value.keyword_score = 10000

\* C26: for a job description with at least one word of 4 or more
\* characters, a match of 100 before rounding (every such word of the job
\* description is a word of the resume) comes with a keyword_score of 100.
C26_FullMatchImpliesKeywords ==
    (Applied("jd_match") /\ input.n >= 1
        /\ RatEq(output.value.jd_match, Rat(100, 1)))
        => output.value.keyword_score = 10000

\* a job description of more than 20 words, all of them in the resume
C26_Witness ==
    /\ Applied("jd_match")
    /\ input.n > TOP_WORDS
    /\ input.dropped = {}
    /\ output.value.jd_match_percentage = 10000
    /\ output.value.keyword_score = 10000

-----------------------------------------------------------------------------
(* Sign-up, login and logout *)

FLASH_FIELDS_REQUIRED == <<"All fields are required!", "error">>
FLASH_USER_EXISTS == <<"Username or email already exists!", "error">>
FLASH_REGISTERED == <<"Registration successful! Please log in.", "success">>
FLASH_LOGGED_IN == <<"Login successful!", "success">>
FLASH_WRONG_LOGIN == <<"Wrong username or password!", "error">>
FLASH_LOGGED_OUT == <<"You have been logged out!", "success">>

Page(to, flash) == [kind |-> "page", to |-> to, flash |-> flash]

\* the outcome of a sign-up, login or logout request: the connection state,
\* the users collection and the sessions it leaves, and its response
AuthOutcome(conn, us, ss, response) ==
    [conn |-> conn, users |-> us, sessions |-> ss, resp |-> response]

\* the id the server gives the next inserted user
NewUserId(us) == "u" \o Ch(DIGITS, Len(us) + 2)

\* users_col.find_one(query): the first of the users at the indices hits
\* (those that satisfy the query), or None
FindUser(us, hits) ==
    IF hits = {} THEN None
    ELSE us[CHOOSE i \in hits : \A j \in hits : i <= j]

\* the signup view, lines 218-252
signup(method, form_username, form_email, password) ==
    LET conn == [client |-> client, connection_status |-> connection_status,
                 cols |-> cols]
        conn2 == get_mongo_client(client, mongo_up)
        username == strip(form_username, SpaceSet)
        email == strip(form_email, SpaceSet)
        same == {i \in 1..Len(users) :
                    users[i].username = username \/ users[i].email = email}
    IN  IF method # "POST"
        THEN AuthOutcome(conn, users, sessions, Page("signup", << >>))
        ELSE IF ~check_db_connection(conn)
        THEN AuthOutcome(conn, users, sessions,
                         Redirect("signup", FLASH_DB_UNAVAILABLE))
        ELSE IF username = "" \/ email = "" \/ password = ""
        THEN AuthOutcome(conn, users, sessions,
                         Redirect("signup", FLASH_FIELDS_REQUIRED))
        ELSE IF ~conn2.cols
        THEN AuthOutcome(conn2, users, sessions,
                         Redirect("signup", FLASH_DB_UNAVAILABLE))
        ELSE IF FindUser(users, same) # None
        THEN AuthOutcome(conn2, users, sessions,
                         Redirect("signup", FLASH_USER_EXISTS))
        ELSE AuthOutcome(conn2,
                         Append(users,
                                [_id |-> NewUserId(users),
                                 username |-> username, email |-> email,
                                 password_hash |-> password]),
                         sessions, Redirect("login", FLASH_REGISTERED))

\* the login view, lines 254-276
login(method, form_username, password) ==
    LET conn == [client |-> client, connection_status |-> connection_status,
                 cols |-> cols]
        conn2 == get_mongo_client(client, mongo_up)
        username == strip(form_username, SpaceSet)
        user == FindUser(users, {i \in 1..Len(users) :
                                    users[i].username = username})
    IN  IF method # "POST"
        THEN AuthOutcome(conn, users, sessions, Page("login", << >>))
        ELSE IF ~check_db_connection(conn)
        THEN AuthOutcome(conn, users, sessions,
                         Redirect("login", FLASH_DB_UNAVAILABLE))
        ELSE IF ~conn2.cols
        THEN AuthOutcome(conn2, users, sessions,
                         Redirect("login", FLASH_DB_UNAVAILABLE))
        ELSE IF user # None /\ user.password_hash = password
        THEN AuthOutcome(conn2, users, sessions \cup {user._id},
                         Redirect("dashboard", FLASH_LOGGED_IN))
        ELSE AuthOutcome(conn2, users, sessions,
                         Page("login", FLASH_WRONG_LOGIN))

\* the logout view for the session of user, lines 278-283, after load_user
logout(session, user) ==
    IF session.found
    THEN AuthOutcome(session.conn, users, sessions \ {user},
                     Redirect("index", FLASH_LOGGED_OUT))
    ELSE AuthOutcome(session.conn, users, sessions,
                     Redirect("login", FLASH_LOGIN))

\* the state after a sign-up, login or logout request with outcome out
AuthRespond(out) ==
    /\ client' = out.conn.client
    /\ connection_status' = out.conn.connection_status
    /\ cols' = out.conn.cols
    /\ users' = out.users
    /\ sessions' = out.sessions
    /\ resp' = out.resp
    /\ call' = None
    /\ UNCHANGED <<nlp, fs, now, mongo_up, evaluations, next_id, input,
                   output, calls, handles>>

\* a request to /signup from a browser without a session
Signup(method, form_username, form_email, password) ==
    AuthRespond(signup(method, form_username, form_email, password))

\* a request to /login from a browser without a session
Login(method, form_username, password) ==
    AuthRespond(login(method, form_username, password))

\* a request to /logout carrying the session of user
Logout(user) ==
    /\ user \in sessions
    /\ AuthRespond(logout(load_user(user), user))

MaxUsers == 2

LoginForms ==
    {<<"jo", "pw1">>, <<" jo ", "pw1">>, <<"jo", "nope">>, <<"ann", "pw2">>}

SignupForms ==
    {<<"ann ", "ann@x.io", "pw2">>, <<"jo", "j@x.io", "pw">>,
     <<"bob", "jo@x.io", "pw">>, <<"ann", "ann@x.io", "">>,
     <<"cy", "cy@x.io", "pw3">>}

InitAuth ==
    /\ nlp = None
    /\ fs = << >>
    /\ now = 0
    /\ mongo_up \in BOOLEAN
    /\ LET conn == get_mongo_client("None", mongo_up)
       IN  /\ client = conn.client
           /\ connection_status = conn.connection_status
           /\ cols = conn.cols
    /\ evaluations = << >>
    /\ next_id = 1
    /\ call = None
    /\ resp = None
    /\ input = None
    /\ output = None
    /\ calls = << >>
    /\ handles = {}
    /\ users = InitialUsers
    /\ sessions = {}

NextAuth ==
    \/ \E method \in {"GET", "POST"}, form \in SignupForms :
         /\ Len(users) < MaxUsers
         /\ Signup(method, form[1], form[2], form[3])
    \/ \E method \in {"GET", "POST"}, form \in LoginForms :
         Login(method, form[1], form[2])
    \/ \E user \in sessions : Logout(user)
    \/ MongoSwitch

SpecAuth == InitAuth /\ [][NextAuth]_vars

\* a POST to /login or /signup
AuthPost ==
    \/ \E form \in LoginForms : Login("POST", form[1], form[2])
    \/ \E form \in SignupForms : Signup("POST", form[1], form[2], form[3])

\* C28: once the database server is reachable, a login or signup POST
\* connects to it again and is carried out; it is not answered with
\* "Database connection unavailable" because an earlier attempt to connect,
\* at start-up for example, had failed.
C28_AuthPostReconnects ==
    [][(mongo_up /\ AuthPost)
          => /\ connection_status'
             /\ resp'.flash # FLASH_DB_UNAVAILABLE]_vars

-----------------------------------------------------------------------------
(* The routes that read or delete one evaluation *)

GENERATED_FOLDER == "static/generated"

FLASH_INVALID_ID == <<"Evaluation ID invalid!", "error">>
FLASH_EVAL_NOT_FOUND == <<"Evaluation not found!", "error">>
FLASH_REPORT_NOT_FOUND == <<"Report not found!", "error">>
FLASH_FILE_NOT_FOUND == <<"Original file not found.", "error">>
FLASH_PDF_PROBLEM == <<"There was a problem generating the PDF.", "error">>
FLASH_DELETED == <<"Evaluation deleted successfully!", "success">>
FLASH_DELETE_ERROR == <<"Error deleting evaluation!", "error">>

DEFAULT_SUGGESTIONS ==
    <<"Use clear achievements with metrics.",
      "Include relevant keywords from job description.",
      "Ensure contact info is visible at top.">>

\* An eval_id of a URL is a number: 0 stands for a string ObjectId() rejects
ValidId(eval_id) == eval_id > 0

\* mutant: the query holds the _id only
Matching_any_owner(evals, eval_id, user) ==
    {i \in 1..Len(evals) : evals[i]._id = eval_id}

\* the documents that satisfy {"_id": ObjectId(eval_id), "user_id": user}
Matching(evals, eval_id, user) ==
    {i \in 1..Len(evals) :
        evals[i]._id = eval_id /\ evals[i].user_id = user}

\* evaluations_col.find_one(query), or None
find_one(evals, eval_id, user) ==
    LET found == Matching(evals, eval_id, user)
    IN  IF found = {} THEN None
        ELSE evals[CHOOSE i \in found : \A j \in found : i <= j]

\* the collection after evaluations_col.delete_one(query)
RECURSIVE Without(_, _)
Without(seq, i) ==
    IF Len(seq) = 0 THEN << >>
    ELSE IF i = 1 THEN Tail(seq)
    ELSE <<Head(seq)>> \o Without(Tail(seq), i - 1)

delete_one(evals, eval_id, user) ==
    LET found == Matching(evals, eval_id, user)
    IN  IF found = {} THEN evals
        ELSE Without(evals, CHOOSE i \in found : \A j \in found : i <= j)

\* the response of one of these routes: request names the route, the user
\* of the session and the eval_id of the URL it answers
Reply(request, response) == response @@ [request |-> request]

\* lines 373-381 and the like: the two connection tests each of the routes
\* starts with; None when both pass
db_unavailable(conn, conn2, request) ==
    IF ~check_db_connection(conn)
    THEN Answer(conn, Reply(request,
                            Redirect("dashboard", FLASH_DB_UNAVAILABLE)))
    ELSE IF ~conn2.cols
    THEN Answer(conn2, Reply(request,
                             Redirect("dashboard", FLASH_DB_UNAVAILABLE)))
    ELSE None

\* [line.strip() for line in feedback.splitlines() if line.strip()][:6]
\* or the three default suggestions
suggestions_of(feedback) ==
    LET lines == Lines(feedback)
        stripped == [k \in 1..Len(lines) |-> strip(lines[k], SpaceSet)]
        kept == SelectSeq(stripped, LAMBDA l : l # "")
    IN  IF Len(kept) = 0 \/ feedback = "" THEN DEFAULT_SUGGESTIONS
        ELSE FirstN(kept, 6)

\* the result view, lines 370-414
result(user, eval_id, conn) ==
    LET request == [route |-> "result", user |-> user, eval_id |-> eval_id]
        conn2 == get_mongo_client(conn.client, mongo_up)
        down == db_unavailable(conn, conn2, request)
        eval_obj == find_one(evaluations, eval_id, user)
    IN  IF down # None THEN down
        ELSE IF ~ValidId(eval_id)
        THEN Answer(conn2, Reply(request,
                                 Redirect("dashboard", FLASH_INVALID_ID)))
        ELSE IF eval_obj = None
        THEN Answer(conn2, Reply(request,
                                 Redirect("dashboard", FLASH_EVAL_NOT_FOUND)))
        ELSE Answer(conn2,
                    Reply(request,
                          [kind |-> "page", to |-> "result",
                           flash |-> << >>,
                           evaluation |-> eval_obj,
                           suggested_roles |-> eval_obj.suggested_roles,
                           suggestions |->
                               suggestions_of(eval_obj.detailed_feedback),
                           chart_data |->
                               [ats |-> eval_obj.ats_score,
                                keywords |-> eval_obj.keyword_score,
                                grammar |-> eval_obj.grammar_score,
                                structure |-> eval_obj.structure_score,
                                skills |-> eval_obj.skills_score]]))

\* the download_report view, lines 420-446
download_report(user, eval_id, conn) ==
    LET request == [route |-> "download_report", user |-> user,
                    eval_id |-> eval_id]
        conn2 == get_mongo_client(conn.client, mongo_up)
        down == db_unavailable(conn, conn2, request)
        eval_obj == IF ValidId(eval_id)
                    THEN find_one(evaluations, eval_id, user) ELSE None
    IN  IF down # None THEN down
        ELSE IF eval_obj = None
        THEN Answer(conn2, Reply(request,
                                 Redirect("dashboard", FLASH_REPORT_NOT_FOUND)))
        ELSE IF eval_obj.file_path = "" \/ ~exists(fs, eval_obj.file_path)
        THEN Answer(conn2, Reply(request,
                                 Redirect("dashboard", FLASH_FILE_NOT_FOUND)))
        ELSE Answer(conn2,
                    Reply(request,
                          [kind |-> "file", path |-> eval_obj.file_path,
                           flash |-> << >>, evaluation |-> eval_obj]))

\* _create_pdf_from_evaluation, lines 448-464: the path and the content of
\* the report it writes
report_path(eval_obj) ==
    GENERATED_FOLDER \o "/evaluation_" \o Ch(DIGITS, eval_obj._id + 1)
        \o "_" \o strftime(now) \o ".pdf"

REPORT == [fmt |-> "pdf", parts |-> <<"Resume Evaluation Report">>]

\* the download_report_pdf view, lines 466-493; written tells whether
\* _create_pdf_from_evaluation returned (ReportLab is installed and the
\* file could be written) or raised
download_report_pdf(user, eval_id, conn, written) ==
    LET request == [route |-> "download_report_pdf", user |-> user,
                    eval_id |-> eval_id]
        conn2 == get_mongo_client(conn.client, mongo_up)
        down == db_unavailable(conn, conn2, request)
        eval_obj == IF ValidId(eval_id)
                    THEN find_one(evaluations, eval_id, user) ELSE None
    IN  IF down # None THEN down
        ELSE IF eval_obj = None
        THEN Answer(conn2, Reply(request,
                                 Redirect("dashboard", FLASH_EVAL_NOT_FOUND)))
        ELSE IF ~written
        THEN Answer(conn2,
                    Reply(request,
                          [kind |-> "redirect", to |-> "result",
                           eval_id |-> eval_id, flash |-> FLASH_PDF_PROBLEM]))
        ELSE LET pdf_path == report_path(eval_obj)
             IN  [fs |-> [p \in DOMAIN fs \cup {pdf_path} |->
                             IF p = pdf_path THEN REPORT ELSE fs[p]],
                  evaluations |-> evaluations, next_id |-> next_id,
                  conn |-> conn2, call |-> None,
                  resp |-> Reply(request,
                                 [kind |-> "file", path |-> pdf_path,
                                  flash |-> << >>, evaluation |-> eval_obj])]

\* the delete_evaluation view, lines 554-576; deleted holds the documents
\* delete_one removed (result.deleted_count is its length)
delete_evaluation(user, eval_id, conn) ==
    LET request == [route |-> "delete_evaluation", user |-> user,
                    eval_id |-> eval_id]
        conn2 == get_mongo_client(conn.client, mongo_up)
        down == db_unavailable(conn, conn2, request)
        found == Matching(evaluations, eval_id, user)
    IN  IF down # None THEN down
        ELSE IF ~ValidId(eval_id)
        THEN Answer(conn2, Reply(request,
                                 Redirect("dashboard", FLASH_DELETE_ERROR)))
        ELSE IF found = {}
        THEN Answer(conn2, Reply(request,
                                 Redirect("dashboard", FLASH_EVAL_NOT_FOUND)))
        ELSE [fs |-> fs,
              evaluations |-> delete_one(evaluations, eval_id, user),
              next_id |-> next_id, conn |-> conn2, call |-> None,
              resp |-> Reply(request,
                             Redirect("dashboard", FLASH_DELETED)
                                 @@ [deleted |-> <<find_one(evaluations,
                                                            eval_id, user)>>])]

\* the answer of login_required to a request without a valid session
login_first(session) == Answer(session.conn, Redirect("login", FLASH_LOGIN))

\* requests to the four routes carrying the session of user: load_user runs
\* first (login_required), then the view
Result(user, eval_id) ==
    LET session == load_user(user)
    IN  Respond(IF session.found THEN result(user, eval_id, session.conn)
                ELSE login_first(session))

DownloadReport(user, eval_id) ==
    LET session == load_user(user)
    IN  Respond(IF session.found
                THEN download_report(user, eval_id, session.conn)
                ELSE login_first(session))

DownloadReportPdf(user, eval_id, written) ==
    LET session == load_user(user)
    IN  Respond(IF session.found
                THEN download_report_pdf(user, eval_id, session.conn, written)
                ELSE login_first(session))

DeleteEvaluation(user, eval_id) ==
    LET session == load_user(user)
    IN  Respond(IF session.found
                THEN delete_evaluation(user, eval_id, session.conn)
                ELSE login_first(session))

\* SpecSite: two users, each logged in from a browser, upload resumes and
\* ask for the evaluations by id
MaxSaved == 2

SiteUsers ==
    InitialUsers
        \o <<[_id |-> "u2", username |-> "ann", email |-> "ann@x.io",
              password_hash |-> "pw2"]>>

SITE_PDF == [fmt |-> "pdf", parts |-> <<"Skills: Python">>]

InitSite ==
    /\ nlp = None
    /\ fs = << >>
    /\ now = 0
    /\ mongo_up = TRUE
    /\ LET conn == get_mongo_client("None", mongo_up)
       IN  /\ client = conn.client
           /\ connection_status = conn.connection_status
           /\ cols = conn.cols
    /\ evaluations = << >>
    /\ next_id = 1
    /\ call = None
    /\ resp = None
    /\ input = None
    /\ output = None
    /\ calls = << >>
    /\ handles = {}
    /\ users = SiteUsers
    /\ sessions = {"u1", "u2"}

NextSite ==
    \/ /\ next_id <= MaxSaved
       /\ \E user \in sessions : Upload(user, "POST", "cv.pdf", SITE_PDF, "")
    \/ \E user \in sessions, eval_id \in 0..(next_id - 1) :
         Result(user, eval_id)
    \/ \E user \in sessions, eval_id \in 0..(next_id - 1) :
         DownloadReport(user, eval_id)
    \/ \E user \in sessions, eval_id \in 0..(next_id - 1) :
         \E written \in BOOLEAN : DownloadReportPdf(user, eval_id, written)
    \/ \E user \in sessions, eval_id \in 0..(next_id - 1) :
         DeleteEvaluation(user, eval_id)
    \/ MongoSwitch

SpecSite == InitSite /\ [][NextSite]_vars

\* whether resp answers a request to one of the four routes
Routed == resp # None /\ "request" \in DOMAIN resp

\* C27: the result, download_report, download_report_pdf and
\* delete_evaluation routes show, send or delete an evaluation only when its
\* user_id is the id of the logged-in user who asks: whatever uploads and
\* requests the users have made, the evaluation in a response of these
\* routes, and every evaluation a request deleted, was created by the user
\* of the request.
C27_OwnEvaluationsOnly ==
    Routed =>
        /\ "evaluation" \in DOMAIN resp
              => resp.evaluation.user_id = resp.request.user
        /\ "deleted" \in DOMAIN resp
              => \A i \in 1..Len(resp.deleted) :
                    resp.deleted[i].user_id = resp.request.user
        /\ resp.request.user \in sessions

\* a user asked for an evaluation another user created, by its id, and was
\* told it does not exist, while the evaluation is still stored
C27_Witness ==
    /\ Routed
    /\ resp.flash \in {FLASH_EVAL_NOT_FOUND, FLASH_REPORT_NOT_FOUND}
    /\ \E i \in 1..Len(evaluations) :
          /\ evaluations[i]._id = resp.request.eval_id
          /\ evaluations[i].user_id # resp.request.user

-----------------------------------------------------------------------------
(* SpecUploads: one user uploads several files, some within one second *)

SITE_DOCX == [fmt |-> "docx", parts |-> <<"Summary", "sql reports">>]

SavedNames == {".pdf", "cv.pdf", "my cv.PDF", "cv.docx"}

SavedContents == {SITE_PDF, SITE_DOCX}

InitUploads ==
    /\ nlp = None
    /\ fs = << >>
    /\ now = 0
    /\ mongo_up = TRUE
    /\ LET conn == get_mongo_client("None", mongo_up)
       IN  /\ client = conn.client
           /\ connection_status = conn.connection_status
           /\ cols = conn.cols
    /\ evaluations = << >>
    /\ next_id = 1
    /\ call = None
    /\ resp = None
    /\ input = None
    /\ output = None
    /\ calls = << >>
    /\ handles = {}
    /\ users = InitialUsers
    /\ sessions = USERS

NextUploads ==
    \/ /\ next_id <= MaxSaved
       /\ Cardinality(DOMAIN fs) < MaxSaved
       /\ \E user \in sessions, filename \in SavedNames,
             content \in SavedContents :
            Upload(user, "POST", filename, content, "")
    \/ MongoSwitch
    \/ now < MaxTime /\ Tick

SpecUploads == InitUploads /\ [][NextUploads]_vars

\* C29: an upload whose filename passes allowed_file is saved under a path
\* that evaluate_resume hands to the PDF or the DOCX extractor: the path of
\* the evaluation an upload makes ends in .pdf or .docx, the new name given
\* to the file never sends it to the unsupported-format branch.
C29_AcceptedUploadIsExtracted ==
    (call # None /\ resp # None)
        => \/ endswith(lower(call.file_path), ".pdf")
           \/ endswith(lower(call.file_path), ".docx")

\* C30: two uploads, even within the same second, are saved under distinct
\* paths: the stored evaluation documents have pairwise distinct file_path,
\* and the file at the file_path of each document is the file that was
\* evaluated for it.
C30_DistinctPaths ==
    /\ \A i \in 1..Len(evaluations), j \in 1..Len(evaluations) :
          i # j => evaluations[i].file_path # evaluations[j].file_path
    /\ \A i \in 1..Len(evaluations) :
          evaluations[i].resume_text
              = extract_text_from_file(fs, evaluations[i].file_path)

=============================================================================
